---------------------------- MODULE Spec2Model ----------------------------
(***************************************************************************)
(* Rail geometry service (RailGeometry): construction of a rail path       *)
(* between two stations from raw railway line segments.                    *)
(*                                                                         *)
(* Numbers.  A coordinate is a pair <<lat, lng>> of integers counting      *)
(* steps of 0.0005 degrees, so 0.001 degrees is 2, 0.005 is 10, 0.02 is 40 *)
(* and 0.1 is 200.  A comparison of one distance with a threshold is made  *)
(* on the squares, which is exact.  Where the code adds or subtracts       *)
(* distances (path length, progress, score, edge weights) the square root  *)
(* is taken in fixed point: distance(p1, p2) counts 1/DistScale of a       *)
(* coordinate step, rounded down, and the thresholds it is compared with   *)
(* are scaled alike.                                                       *)
(***************************************************************************)
EXTENDS Integers, Sequences, FiniteSets, TLC

(***************************************************************************)
(* Bounds of the model                                                     *)
(***************************************************************************)
DistScale == 16
MaxWays == 2
MaxCoords == 3
MaxSearchWays == 3
MaxPathLen == 5
MaxJoinCoords == 2
MaxGreedyWays == 2
MaxLegs == 2
MaxCallers == 2
MaxLoaders == 2
MaxFetches == 2

(***************************************************************************)
(* Thresholds of the code, in coordinate steps of 0.0005 degrees           *)
(***************************************************************************)
SNAP_THRESHOLD == 2
CONNECTION_THRESHOLD == 10
BacktrackTolerance == 40
ProgressTolerance == 40
SimplifyThreshold == 2
SkipFirstThreshold == 4
NearDestination == 20
GreedyMargin == 200
Infinity == 1000000000

(***************************************************************************)
(* Arithmetic and sequences                                                *)
(***************************************************************************)
Min2(a, b) == IF a < b THEN a ELSE b
Max2(a, b) == IF a > b THEN a ELSE b

RECURSIVE SqrtSearch(_, _, _)
SqrtSearch(n, lo, hi) ==
    IF lo >= hi THEN lo
    ELSE LET mid == (lo + hi + 1) \div 2
         IN  IF mid * mid <= n THEN SqrtSearch(n, mid, hi)
                               ELSE SqrtSearch(n, lo, mid - 1)

\* Math.sqrt, rounded down to an integer; the search starts from a bound
\* above the root
ISqrt(n) ==
    SqrtSearch(n, 0, IF n < 65536 THEN 255 ELSE IF n < 16777216 THEN 4095 ELSE 46340)

Last(s) == s[Len(s)]
Front(s) == SubSeq(s, 1, Len(s) - 1)
Reverse(s) == [i \in 1..Len(s) |-> s[Len(s) + 1 - i]]

(***************************************************************************)
(* distance (part_000:579-583)                                             *)
(***************************************************************************)
DistSq(p1, p2) ==
    LET dLat == p2[1] - p1[1]
        dLng == p2[2] - p1[2]
    IN  dLat * dLat + dLng * dLng

distance(p1, p2) == ISqrt(DistScale * DistScale * DistSq(p1, p2))

\* sum of the distances between consecutive points, as the loops at
\* part_000:178-180 and part_000:243-246 accumulate it
RECURSIVE PathLength(_)
PathLength(path) ==
    IF Len(path) < 2 THEN 0
    ELSE PathLength(Front(path)) + distance(path[Len(path) - 1], path[Len(path)])

(***************************************************************************)
(* validatePath (part_000:170-206)                                         *)
(***************************************************************************)
RECURSIVE BacktrackCount(_, _, _)
BacktrackCount(path, destination, i) ==
    IF i > Len(path) THEN 0
    ELSE (IF distance(path[i], destination)
               > distance(path[i - 1], destination) + BacktrackTolerance * DistScale
          THEN 1 ELSE 0)
         + BacktrackCount(path, destination, i + 1)

\* validatePath rejecting a path already at 20% of backtracking steps
validatePath_AtTwentyPercent(path, origin, destination) ==
    IF Len(path) < 2 THEN <<origin, destination>>
    ELSE IF PathLength(path) > distance(origin, destination) * 3
         THEN <<origin, destination>>
    ELSE IF 5 * BacktrackCount(path, destination, 2) >= Len(path)
         THEN <<origin, destination>>
    ELSE path

\* validatePath without the limit on the length of the path
validatePath_NoLengthLimit(path, origin, destination) ==
    IF Len(path) < 2 THEN <<origin, destination>>
    ELSE IF 5 * BacktrackCount(path, destination, 2) > Len(path)
         THEN <<origin, destination>>
    ELSE path

validatePath(path, origin, destination) ==
    IF Len(path) < 2 THEN <<origin, destination>>
    ELSE IF PathLength(path) > distance(origin, destination) * 3
         THEN <<origin, destination>>
    \* backtrackCount > path.length * 0.2
    ELSE IF 5 * BacktrackCount(path, destination, 2) > Len(path)
         THEN <<origin, destination>>
    ELSE path

(***************************************************************************)
(* calculateAngle (part_000:558-574) and removeSharpTurns (531-553)        *)
(***************************************************************************)
\* calculateAngle(a, b, c) < 60: the vectors are ab = b - a and bc = c - b;
\* a zero vector gives 180, otherwise acos(cos) < 60 degrees is
\* cos > 1/2, that is 2 * dot > |ab| * |bc|.
AngleBelow60(a, b, c) ==
    LET ab == <<b[1] - a[1], b[2] - a[2]>>
        bc == <<c[1] - b[1], c[2] - b[2]>>
        dotProduct == ab[1] * bc[1] + ab[2] * bc[2]
        sqAB == ab[1] * ab[1] + ab[2] * ab[2]
        sqBC == bc[1] * bc[1] + bc[2] * bc[2]
    IN  /\ sqAB # 0
        /\ sqBC # 0
        /\ dotProduct > 0
        /\ 4 * dotProduct * dotProduct > sqAB * sqBC

\* the iteration with its two branches exchanged
SharpTurnStep_Inverted(result, next) ==
    LET prev == result[Len(result) - 1]
        curr == result[Len(result)]
    IN  IF AngleBelow60(prev, curr, next)
        THEN Append(result, next)
        ELSE [result EXCEPT ![Len(result)] = next]

\* one iteration of the loop at part_000:536-550
SharpTurnStep(result, next) ==
    LET prev == result[Len(result) - 1]
        curr == result[Len(result)]
    IN  IF AngleBelow60(prev, curr, next)
        THEN [result EXCEPT ![Len(result)] = next]
        ELSE Append(result, next)

RECURSIVE SharpTurnLoop(_, _, _)
SharpTurnLoop(path, result, i) ==
    IF i > Len(path) THEN result
    ELSE SharpTurnLoop(path, SharpTurnStep(result, path[i]), i + 1)

\* removeSharpTurns applied to paths of 3 points too
removeSharpTurns_FromThree(path) ==
    IF Len(path) <= 2 THEN path
    ELSE SharpTurnLoop(path, <<path[1], path[2]>>, 3)

removeSharpTurns(path) ==
    IF Len(path) <= 3 THEN path
    ELSE SharpTurnLoop(path, <<path[1], path[2]>>, 3)

(***************************************************************************)
(* simplifyPath (part_000:508-526)                                         *)
(***************************************************************************)
RECURSIVE DedupLoop(_, _, _, _)
DedupLoop(path, threshold, simplified, i) ==
    IF i > Len(path) - 1 THEN simplified
    ELSE DedupLoop(path, threshold,
                   IF DistSq(Last(simplified), path[i]) > threshold * threshold
                   THEN Append(simplified, path[i]) ELSE simplified,
                   i + 1)

\* DedupPass without the final push of the last point
DedupPass_NoFinalPush(path, threshold) == DedupLoop(path, threshold, <<path[1]>>, 2)

\* a first pass that keeps every point, whatever the spacing
DedupPass_KeepAll(path, threshold) == path

\* first pass, part_000:512-518
DedupPass(path, threshold) ==
    Append(DedupLoop(path, threshold, <<path[1]>>, 2), Last(path))

simplifyPath(path, threshold) ==
    IF Len(path) <= 2 THEN path
    ELSE LET simplified == DedupPass(path, threshold)
         IN  IF Len(simplified) > 2 THEN removeSharpTurns(simplified)
                                    ELSE simplified

(***************************************************************************)
(* buildRailwayGraph (part_000:212-264)                                    *)
(* A graph is the sequence of its nodes in the order the Map received      *)
(* them; a node is [key, lat, lng, edges], edges in push order.            *)
(***************************************************************************)
\* Math.round(x / SNAP_THRESHOLD) * SNAP_THRESHOLD; Math.round rounds a
\* half upwards
SnapRound(x) == ((2 * x + SNAP_THRESHOLD) \div (2 * SNAP_THRESHOLD)) * SNAP_THRESHOLD

\* toFixed(4): the number of ten-thousandths of a degree (a step is 5 of them)
ToFixed4(x) == 5 * x

\* a key made of the coordinates as they are, without snapping
getNodeKey_Exact(lat, lng) == <<ToFixed4(lat), ToFixed4(lng)>>

getNodeKey(lat, lng) == <<ToFixed4(SnapRound(lat)), ToFixed4(SnapRound(lng))>>

\* position of the node stored under key, 0 when nodes.has(key) is false
RECURSIVE NodeIndexFrom(_, _, _)
NodeIndexFrom(nodes, key, i) ==
    IF i > Len(nodes) THEN 0
    ELSE IF nodes[i].key = key THEN i
    ELSE NodeIndexFrom(nodes, key, i + 1)

NodeIndex(nodes, key) == NodeIndexFrom(nodes, key, 1)

\* the node map after getOrCreateNode(lat, lng)
getOrCreateNode(nodes, lat, lng) ==
    LET key == getNodeKey(lat, lng)
    IN  IF NodeIndex(nodes, key) = 0
        THEN Append(nodes, [key |-> key, lat |-> lat, lng |-> lng, edges |-> <<>>])
        ELSE nodes

\* a forEach body that adds nothing for a segment whose start node already
\* has an edge to its end node
AddSegment_MergeParallel(nodes, segment) ==
    LET coords == segment.coords
        startKey == getNodeKey(coords[1][1], coords[1][2])
        endKey == getNodeKey(coords[Len(coords)][1], coords[Len(coords)][2])
        withStart == getOrCreateNode(nodes, coords[1][1], coords[1][2])
        withEnd == getOrCreateNode(withStart, coords[Len(coords)][1], coords[Len(coords)][2])
        length == PathLength(coords)
        forward == [to |-> endKey, coords |-> coords,
                    length |-> length, segmentId |-> segment.id]
        backward == [to |-> startKey, coords |-> Reverse(coords),
                     length |-> length, segmentId |-> segment.id]
        pushed == [withEnd EXCEPT ![NodeIndex(withEnd, startKey)].edges
                                      = Append(@, forward)]
    IN  IF Len(coords) < 2 THEN nodes
        ELSE IF /\ NodeIndex(nodes, startKey) # 0
                /\ \E j \in 1..Len(nodes[NodeIndex(nodes, startKey)].edges) :
                       nodes[NodeIndex(nodes, startKey)].edges[j].to = endKey
             THEN nodes
        ELSE [pushed EXCEPT ![NodeIndex(pushed, endKey)].edges = Append(@, backward)]

\* body of segments.forEach, part_000:232-261
AddSegment(nodes, segment) ==
    LET coords == segment.coords
    IN  IF Len(coords) < 2 THEN nodes
        ELSE LET startCoord == coords[1]
                 endCoord == coords[Len(coords)]
                 withStart == getOrCreateNode(nodes, startCoord[1], startCoord[2])
                 withEnd == getOrCreateNode(withStart, endCoord[1], endCoord[2])
                 startKey == getNodeKey(startCoord[1], startCoord[2])
                 endKey == getNodeKey(endCoord[1], endCoord[2])
                 length == PathLength(coords)
                 forward == [to |-> endKey, coords |-> coords,
                             length |-> length, segmentId |-> segment.id]
                 backward == [to |-> startKey, coords |-> Reverse(coords),
                              length |-> length, segmentId |-> segment.id]
                 pushed == [withEnd EXCEPT ![NodeIndex(withEnd, startKey)].edges
                                               = Append(@, forward)]
             IN  [pushed EXCEPT ![NodeIndex(pushed, endKey)].edges
                                    = Append(@, backward)]

RECURSIVE BuildFrom(_, _, _)
BuildFrom(segments, nodes, i) ==
    IF i > Len(segments) THEN nodes
    ELSE BuildFrom(segments, AddSegment(nodes, segments[i]), i + 1)

buildRailwayGraph(segments) == BuildFrom(segments, <<>>, 1)

(***************************************************************************)
(* findClosestNode (part_000:269-282): position of the closest node, 0 for *)
(* null.  A later node replaces the closest only when strictly nearer.     *)
(***************************************************************************)
RECURSIVE ClosestFrom(_, _, _, _)
ClosestFrom(nodes, point, closest, i) ==
    IF i > Len(nodes) THEN closest
    ELSE ClosestFrom(nodes, point,
             IF \/ closest = 0
                \/ DistSq(<<nodes[i].lat, nodes[i].lng>>, point)
                     < DistSq(<<nodes[closest].lat, nodes[closest].lng>>, point)
             THEN i ELSE closest,
             i + 1)

findClosestNode(nodes, point) == ClosestFrom(nodes, point, 0, 1)

(***************************************************************************)
(* dijkstra (part_000:287-339)                                             *)
(* Search state: distances (key -> number), previous (key -> <<>> when     *)
(* absent, else <<[from, edge]>>), visited (set of keys), queue (sequence  *)
(* of [key, dist]).                                                        *)
(***************************************************************************)
NodeKeys(graph) == {graph[i].key : i \in 1..Len(graph)}

\* queue.sort((a, b) => a.dist - b.dist): a stable sort
\* (SortByDist_Unsorted: the queue served first in, first out)
SortByDist_Unsorted(queue) == queue

RECURSIVE InsertByDist(_, _)
InsertByDist(sorted, item) ==
    IF sorted = <<>> THEN <<item>>
    ELSE IF Last(sorted).dist <= item.dist THEN Append(sorted, item)
    ELSE Append(InsertByDist(Front(sorted), item), Last(sorted))

RECURSIVE SortByDist(_)
SortByDist(queue) ==
    IF queue = <<>> THEN <<>>
    ELSE InsertByDist(SortByDist(Front(queue)), Last(queue))

\* body of currentNode.edges.forEach, part_000:312-321
RelaxEdge(st, currentKey, edge) ==
    IF edge.to \in st.visited THEN st
    ELSE LET newDist == st.distances[currentKey] + edge.length
         IN  IF newDist < st.distances[edge.to]
             THEN [st EXCEPT !.distances[edge.to] = newDist,
                             !.previous[edge.to] = <<[from |-> currentKey, edge |-> edge]>>,
                             !.queue = Append(@, [key |-> edge.to, dist |-> newDist])]
             ELSE st

RECURSIVE RelaxFrom(_, _, _, _)
RelaxFrom(st, currentKey, edges, i) ==
    IF i > Len(edges) THEN st
    ELSE RelaxFrom(RelaxEdge(st, currentKey, edges[i]), currentKey, edges, i + 1)

\* the while loop, part_000:299-322
RECURSIVE DijkstraLoop(_, _, _)
DijkstraLoop(graph, endKey, st) ==
    IF st.queue = <<>> THEN st
    ELSE LET sorted == SortByDist(st.queue)
             current == Head(sorted)
             shifted == [st EXCEPT !.queue = Tail(sorted)]
         IN  IF current.key \in st.visited THEN DijkstraLoop(graph, endKey, shifted)
             ELSE LET marked == [shifted EXCEPT !.visited = @ \cup {current.key}]
                      at == NodeIndex(graph, current.key)
                  IN  IF current.key = endKey THEN marked
                      ELSE IF at = 0 THEN DijkstraLoop(graph, endKey, marked)
                      ELSE DijkstraLoop(graph, endKey,
                               RelaxFrom(marked, current.key, graph[at].edges, 1))

\* the search state when the loop ends
DijkstraSearch(graph, startKey, endKey) ==
    DijkstraLoop(graph, endKey,
        [distances |-> [k \in NodeKeys(graph) |-> IF k = startKey THEN 0 ELSE Infinity],
         previous |-> [k \in NodeKeys(graph) |-> <<>>],
         visited |-> {},
         queue |-> <<[key |-> startKey, dist |-> 0]>>])

\* the reconstruction loop, part_000:329-336; <<>> stands for no key (null)
RECURSIVE Reconstruct(_, _, _, _)
Reconstruct(previous, startKey, current, path) ==
    IF current = <<>> \/ current = startKey THEN <<startKey>> \o path
    ELSE Reconstruct(previous, startKey,
                     IF previous[current] # <<>> THEN previous[current][1].from ELSE <<>>,
                     <<current>> \o path)

\* the node path returned for a search state; <<>> stands for null
NodePathOf(st, startKey, endKey) ==
    IF st.previous[endKey] = <<>> /\ startKey # endKey THEN <<>>
    ELSE Reconstruct(st.previous, startKey, endKey, <<>>)

dijkstra(graph, startKey, endKey) ==
    NodePathOf(DijkstraSearch(graph, startKey, endKey), startKey, endKey)

(***************************************************************************)
(* buildCoordPath (part_000:344-363)                                       *)
(***************************************************************************)
\* currentNode.edges.find(e => e.to === nextKey): position of the first
\* such edge, 0 when there is none
RECURSIVE FindEdgeFrom(_, _, _)
FindEdgeFrom(edges, nextKey, i) ==
    IF i > Len(edges) THEN 0
    ELSE IF edges[i].to = nextKey THEN i
    ELSE FindEdgeFrom(edges, nextKey, i + 1)

RECURSIVE CoordLoop(_, _, _, _)
CoordLoop(graph, nodePath, coords, i) ==
    IF i > Len(nodePath) - 1 THEN coords
    ELSE LET edges == graph[NodeIndex(graph, nodePath[i])].edges
             e == FindEdgeFrom(edges, nodePath[i + 1], 1)
         IN  CoordLoop(graph, nodePath,
                       IF e # 0 THEN coords \o Tail(edges[e].coords) ELSE coords,
                       i + 1)

\* buildCoordPath starting from the coordinate of the first node
buildCoordPath_FromNode(graph, nodePath, origin, destination) ==
    LET first == graph[NodeIndex(graph, nodePath[1])]
    IN  Append(CoordLoop(graph, nodePath, <<<<first.lat, first.lng>>>>, 1), destination)

buildCoordPath(graph, nodePath, origin, destination) ==
    Append(CoordLoop(graph, nodePath, <<origin>>, 1), destination)

(***************************************************************************)
(* isInCorridor (part_000:494-502)                                         *)
(***************************************************************************)
isInCorridor(point, start, end, margin) ==
    LET minLat == Min2(start[1], end[1]) - margin
        maxLat == Max2(start[1], end[1]) + margin
        minLng == Min2(start[2], end[2]) - margin
        maxLng == Max2(start[2], end[2]) + margin
    IN  /\ point[1] >= minLat /\ point[1] <= maxLat
        /\ point[2] >= minLng /\ point[2] <= maxLng

(***************************************************************************)
(* followSegmentsGreedy (part_000:409-489)                                 *)
(***************************************************************************)
\* segments.filter(seg => seg.coords.some(coord => isInCorridor(...)))
CorridorSegments(segments, origin, destination, margin) ==
    SelectSeq(segments,
              LAMBDA seg : \E i \in 1..Len(seg.coords) :
                               isInCorridor(seg.coords[i], origin, destination, margin))

\* a scan that lets every connected segment pass, whatever its progress
GreedyCandidate_AnyProgress(seg, currentPos, destination, distToDest) ==
    LET firstPoint == seg.coords[1]
        lastPoint == seg.coords[Len(seg.coords)]
        sqFirst == DistSq(currentPos, firstPoint)
        sqLast == DistSq(currentPos, lastPoint)
        segEnd == IF sqLast < sqFirst THEN firstPoint ELSE lastPoint
    IN  [connected |-> Min2(sqFirst, sqLast) <= CONNECTION_THRESHOLD * CONNECTION_THRESHOLD,
         forward |-> TRUE,
         reversed |-> sqLast < sqFirst,
         endpoint |-> segEnd,
         score |-> Min2(distance(currentPos, firstPoint), distance(currentPos, lastPoint))
                     - (distToDest - distance(segEnd, destination)) * 2]

\* what the scan computes for one segment, part_000:434-457
GreedyCandidate(seg, currentPos, destination, distToDest) ==
    LET firstPoint == seg.coords[1]
        lastPoint == seg.coords[Len(seg.coords)]
        sqFirst == DistSq(currentPos, firstPoint)
        sqLast == DistSq(currentPos, lastPoint)
        minDist == Min2(distance(currentPos, firstPoint), distance(currentPos, lastPoint))
        useReversed == sqLast < sqFirst
        segEnd == IF useReversed THEN firstPoint ELSE lastPoint
        newDistToDest == distance(segEnd, destination)
        progress == distToDest - newDistToDest
    IN  [connected |-> Min2(sqFirst, sqLast) <= CONNECTION_THRESHOLD * CONNECTION_THRESHOLD,
         forward |-> ~(progress < -(ProgressTolerance * DistScale)),
         reversed |-> useReversed,
         endpoint |-> segEnd,
         score |-> minDist - progress * 2]

\* the for loop at part_000:431-464: best is [index, reversed, endpoint,
\* score], index 0 while bestSegment is null
RECURSIVE BestSegmentFrom(_, _, _, _, _)
BestSegmentFrom(corridorSegments, st, destination, best, i) ==
    IF i > Len(corridorSegments) THEN best
    ELSE LET c == GreedyCandidate(corridorSegments[i], st.currentPos,
                                  destination, st.distToDest)
         IN  BestSegmentFrom(corridorSegments, st, destination,
                 IF /\ i \notin st.usedSegments
                    /\ c.connected
                    /\ c.forward
                    /\ c.score < best.score
                 THEN [index |-> i, reversed |-> c.reversed,
                       endpoint |-> c.endpoint, score |-> c.score]
                 ELSE best,
                 i + 1)

NoBestSegment == [index |-> 0, reversed |-> FALSE, endpoint |-> <<0, 0>>,
                  score |-> Infinity]

\* a pass that goes on when no segment qualifies
GreedyStep_NoBreak(corridorSegments, destination, st) ==
    LET best == BestSegmentFrom(corridorSegments, st, destination, NoBestSegment, 1)
    IN  IF best.index = 0 THEN st
        ELSE LET raw == corridorSegments[best.index].coords
                 coords == IF best.reversed THEN Reverse(raw) ELSE raw
                 skipFirst == DistSq(Last(st.path), coords[1])
                                < SkipFirstThreshold * SkipFirstThreshold
             IN  [path |-> st.path \o (IF skipFirst THEN Tail(coords) ELSE coords),
                  usedSegments |-> st.usedSegments \cup {best.index},
                  currentPos |-> best.endpoint,
                  distToDest |-> distance(best.endpoint, destination),
                  stop |-> DistSq(best.endpoint, destination)
                             < NearDestination * NearDestination]

\* a pass that never stops for being close to the destination
GreedyStep_NoNearStop(corridorSegments, destination, st) ==
    LET best == BestSegmentFrom(corridorSegments, st, destination, NoBestSegment, 1)
    IN  IF best.index = 0 THEN [st EXCEPT !.stop = TRUE]
        ELSE LET raw == corridorSegments[best.index].coords
                 coords == IF best.reversed THEN Reverse(raw) ELSE raw
                 skipFirst == DistSq(Last(st.path), coords[1])
                                < SkipFirstThreshold * SkipFirstThreshold
             IN  [path |-> st.path \o (IF skipFirst THEN Tail(coords) ELSE coords),
                  usedSegments |-> st.usedSegments \cup {best.index},
                  currentPos |-> best.endpoint,
                  distToDest |-> distance(best.endpoint, destination),
                  stop |-> FALSE]

\* one pass of the while loop at part_000:426-485; stop records a break
GreedyStep(corridorSegments, destination, st) ==
    LET best == BestSegmentFrom(corridorSegments, st, destination, NoBestSegment, 1)
    IN  IF best.index = 0 THEN [st EXCEPT !.stop = TRUE]
        ELSE LET raw == corridorSegments[best.index].coords
                 coords == IF best.reversed THEN Reverse(raw) ELSE raw
                 skipFirst == DistSq(Last(st.path), coords[1])
                                < SkipFirstThreshold * SkipFirstThreshold
             IN  [path |-> st.path \o (IF skipFirst THEN Tail(coords) ELSE coords),
                  usedSegments |-> st.usedSegments \cup {best.index},
                  currentPos |-> best.endpoint,
                  distToDest |-> distance(best.endpoint, destination),
                  stop |-> DistSq(best.endpoint, destination)
                             < NearDestination * NearDestination]

RECURSIVE GreedyLoop(_, _, _)
GreedyLoop(corridorSegments, destination, st) ==
    IF st.stop \/ ~(Cardinality(st.usedSegments) < Len(corridorSegments)) THEN st
    ELSE GreedyLoop(corridorSegments, destination,
                    GreedyStep(corridorSegments, destination, st))

followSegmentsGreedy(segments, origin, destination) ==
    LET corridorSegments == CorridorSegments(segments, origin, destination, GreedyMargin)
    IN  IF Len(corridorSegments) = 0 THEN <<origin, destination>>
        ELSE Append(GreedyLoop(corridorSegments, destination,
                               [path |-> <<origin>>,
                                usedSegments |-> {},
                                currentPos |-> origin,
                                distToDest |-> distance(origin, destination),
                                stop |-> FALSE]).path,
                    destination)

(***************************************************************************)
(* findBestPath (part_000:117-164)                                         *)
(* A way is [id, geometry]; a missing geometry is the empty sequence.  A   *)
(* station is [code, lat, lng].                                            *)
(***************************************************************************)
PointOf(station) == <<station.lat, station.lng>>

\* the straight line with its ends exchanged
StraightLine_Swapped(origin, destination) == <<PointOf(destination), PointOf(origin)>>

\* [[origin.lat, origin.lng], [destination.lat, destination.lng]],
\* part_000:119, 131, 145 and 109
StraightLine(origin, destination) == <<PointOf(origin), PointOf(destination)>>

\* ways.filter(w => w.geometry && w.geometry.length > 1).map(...)
SegmentsOf(ways) ==
    LET kept == SelectSeq(ways, LAMBDA w : Len(w.geometry) > 1)
    IN  [i \in 1..Len(kept) |-> [id |-> kept[i].id, coords |-> kept[i].geometry]]

\* the greedy fallback taken for a null node path only
UseGreedy_NullOnly(path) == path = <<>>

\* !nodePath || nodePath.length < 2, part_000:152
UseGreedy(path) == Len(path) < 2

\* the path handed to validatePath, part_000:151-158
CoordPathFor(graph, segments, nodePath, originPoint, destPoint) ==
    IF UseGreedy(nodePath)
    THEN followSegmentsGreedy(segments, originPoint, destPoint)
    ELSE buildCoordPath(graph, nodePath, originPoint, destPoint)

findBestPath(ways, origin, destination) ==
    IF Len(ways) = 0 THEN StraightLine(origin, destination)
    ELSE LET segments == SegmentsOf(ways)
             originPoint == PointOf(origin)
             destPoint == PointOf(destination)
             graph == buildRailwayGraph(segments)
             startNode == findClosestNode(graph, originPoint)
             endNode == findClosestNode(graph, destPoint)
         IN  IF Len(segments) = 0 THEN StraightLine(origin, destination)
             ELSE IF startNode = 0 \/ endNode = 0 THEN StraightLine(origin, destination)
             ELSE LET nodePath == dijkstra(graph, graph[startNode].key, graph[endNode].key)
                      coordPath == CoordPathFor(graph, segments, nodePath,
                                                originPoint, destPoint)
                      validatedPath == validatePath(coordPath, originPoint, destPoint)
                  IN  simplifyPath(validatedPath, SimplifyThreshold)

(***************************************************************************)
(* State                                                                   *)
(***************************************************************************)
VARIABLES
    pc,             \* position of the running call
    ways,           \* data.elements handed to findBestPath
    origin,         \* requested origin station
    destination,    \* requested destination station
    graph,          \* result of buildRailwayGraph
    startKey,       \* key of the node closest to the origin
    endKey,         \* key of the node closest to the destination
    search,         \* dijkstra's maps when its loop ended
    nodePath,       \* dijkstra's result, <<>> for null
    coordPath,      \* path handed to validatePath
    validatedPath,  \* result of validatePath
    geometry,       \* value returned by findBestPath or getRouteGeometry
    stages,         \* stages of findBestPath run so far, in order
    simplified,     \* simplifyPath: the path after its first pass
    result,         \* removeSharpTurns: its result list
    idx,            \* removeSharpTurns: position of the next candidate in simplified
    lastTurn,       \* removeSharpTurns: the points of the latest iteration, <<>> before
    geometryCache,  \* getRouteGeometry: cache key -> <<>> (absent) or <<path>>
    outcome,        \* getRouteGeometry: how the running call's fetch ended
    threw,          \* getRouteGeometry: the running call rejected
    corridor,       \* followSegmentsGreedy: corridorSegments
    greedy,         \* followSegmentsGreedy: path, usedSegments, currentPos, distToDest
    lastPick,       \* followSegmentsGreedy: the latest iteration, <<>> before the first
    iterations,     \* followSegmentsGreedy: passes of the while loop begun so far
    legs,           \* getJourneyGeometry: journey.legs
    legIdx,         \* getJourneyGeometry: position of the leg awaited, 0 outside a call
    allCoords,      \* getJourneyGeometry: allCoords
    legGeometries,  \* getJourneyGeometry: what getRouteGeometry returned, leg by leg
    now,            \* Date.now(), in days
    localStorage,   \* the item under CACHE_KEY: <<>> (absent) or <<[data, timestamp]>>
    writtenAt,      \* history: cache key -> <<>> or <<time the entry was computed and set>>
    calls,          \* getRouteGeometry calls in flight together, one record per caller
    stationGraph,   \* RailGraph: graph, <<>> for null, else <<adjacency>>
    stationsLoaded, \* RailGraph: stationsLoaded
    inits,          \* RailGraph.init: position of each caller's call
    fetchCount,     \* history: fetches of stationGraph.json issued so far
    assignCount,    \* history: assignments to graph made so far
    startCode,      \* RailGraph.findPath: startCode
    endCode,        \* RailGraph.findPath: endCode
    railSearch,     \* RailGraph.findPath: distances, previous, queue
    railPath,       \* RailGraph.findPath: the value returned, <<>> for null
    interchanges,   \* RailGraph.findInterchanges: the value returned
    board,          \* Huxley: station pair -> the response to /departures/from/to, <<>> before
    hubs,           \* searchMultiLegSequence: hubs
    journeys,       \* the value a journey search returned
    tapi,           \* Transport API: what it answers to the running search, <<>> before
    apiCall,        \* searchJourneys: the locals of the running call
    warning,        \* the warning property of the array returned, "" for none
    searchCache,    \* TrainApi: the entry of cache under the key searched, <<>> for none
    shown,          \* app.js: state.journeys, the list on display
    renders,        \* the calls of updateMap that changed the map, one record per call
    routeLayers,    \* MapController: routeLayers
    stationMarkers, \* MapController: stationMarkers
    trainMarkers,   \* MapController: trainMarkers
    mapView,        \* the layers the latest fitBounds fitted the map to, <<>> before
    inputValue,     \* input -> the text of the input element
    searchState,    \* StationSearch: input -> the state of its instance
    stationState,   \* app.js: input -> state.originStation, state.destinationStation
    lastSelected,   \* history: input -> the station selected with no edit since, <<>> for none
    request         \* the stations of the latest TrainApi.searchJourneys call, <<>> before

inputVars == <<ways, origin, destination>>
graphVars == <<graph, startKey, endKey, search, nodePath>>
turnVars == <<simplified, result, idx, lastTurn>>
routeVars == <<geometryCache, outcome, threw>>
greedyVars == <<corridor, greedy, lastPick, iterations>>
journeyVars == <<legs, legIdx, allCoords, legGeometries>>
storeVars == <<now, localStorage, writtenAt>>
callVars == <<calls>>
mapVars == <<shown, renders, routeLayers, stationMarkers, trainMarkers, mapView>>
formVars == <<inputValue, searchState, stationState, lastSelected, request>>
pageVars == <<board, hubs, journeys, tapi, apiCall, warning, searchCache, mapVars, formVars>>
railVars == <<stationGraph, stationsLoaded, inits, fetchCount, assignCount,
              startCode, endCode, railSearch, railPath, interchanges>>

vars == <<pc, ways, origin, destination, graph, startKey, endKey, search,
          nodePath, coordPath, validatedPath, geometry, stages, simplified,
          result, idx, lastTurn, geometryCache, outcome, threw, corridor, greedy,
          lastPick, iterations, legs, legIdx, allCoords, legGeometries, now,
          localStorage, writtenAt, calls, stationGraph, stationsLoaded, inits,
          fetchCount, assignCount, startCode, endCode, railSearch, railPath,
          interchanges, board, hubs, journeys, tapi, apiCall, warning, searchCache,
          shown, renders, routeLayers, stationMarkers, trainMarkers, mapView,
          inputValue, searchState, stationState, lastSelected, request>>

NoSearch == [distances |-> <<>>, previous |-> <<>>, visited |-> {}, queue |-> <<>>]

\* values of the variables a specification leaves aside
NoGraph == graph = <<>> /\ startKey = <<>> /\ endKey = <<>> /\ search = NoSearch /\ nodePath = <<>>
NoTurn == simplified = <<>> /\ result = <<>> /\ idx = 0 /\ lastTurn = <<>>
NoRoute == geometryCache = <<>> /\ outcome = "" /\ threw = FALSE
NoGreedy == corridor = <<>> /\ greedy = <<>> /\ lastPick = <<>> /\ iterations = 0
NoJourney == legs = <<>> /\ legIdx = 0 /\ allCoords = <<>> /\ legGeometries = <<>>
NoStore == now = 0 /\ localStorage = <<>> /\ writtenAt = <<>>
NoCalls == calls = <<>>
NoApi == tapi = <<>> /\ apiCall = <<>> /\ warning = "" /\ searchCache = <<>>
NoMap ==
    /\ shown = <<>>
    /\ renders = <<>>
    /\ routeLayers = <<>>
    /\ stationMarkers = <<>>
    /\ trainMarkers = <<>>
    /\ mapView = <<>>
NoForm ==
    /\ inputValue = <<>>
    /\ searchState = <<>>
    /\ stationState = <<>>
    /\ lastSelected = <<>>
    /\ request = <<>>
NoPage == board = <<>> /\ hubs = <<>> /\ journeys = <<>> /\ NoApi /\ NoMap /\ NoForm
NoRailSearch == [distances |-> <<>>, previous |-> <<>>, queue |-> <<>>]
NoRail ==
    /\ stationGraph = <<>>
    /\ stationsLoaded = FALSE
    /\ inits = <<>>
    /\ fetchCount = 0
    /\ assignCount = 0
    /\ startCode = ""
    /\ endCode = ""
    /\ railSearch = NoRailSearch
    /\ railPath = <<>>
    /\ interchanges = <<>>

(***************************************************************************)
(* Inputs: stations and ways over a small set of coordinates.  (30, 1)     *)
(* and (30, 2) round to the same node key; the stations lie close to, but  *)
(* not on, the ends of the track.                                          *)
(***************************************************************************)
TrackPoints == {<<0, 0>>, <<30, 1>>, <<30, 2>>, <<60, 0>>}

Stations == {[code |-> "AAA", lat |-> 1, lng |-> 1],
             [code |-> "BBB", lat |-> 60, lng |-> 1]}

GeometriesOver(points) == UNION {[1..n -> points] : n \in 0..MaxCoords}

WaysOver(points) ==
    {[i \in 1..Len(g) |-> [id |-> i, geometry |-> g[i]]] :
        g \in UNION {[1..n -> GeometriesOver(points)] : n \in 0..MaxWays}}

(***************************************************************************)
(* findBestPath, stage by stage                                            *)
(***************************************************************************)
Init ==
    /\ pc = "findBestPath"
    /\ ways \in WaysOver(TrackPoints)
    /\ origin \in Stations
    /\ destination \in Stations
    /\ NoGraph
    /\ coordPath = <<>>
    /\ validatedPath = <<>>
    /\ geometry = <<>>
    /\ stages = <<>>
    /\ NoTurn
    /\ NoRoute
    /\ NoGreedy
    /\ NoJourney
    /\ NoStore
    /\ NoCalls
    /\ NoRail
    /\ NoPage

\* part_000:118-132: no way, or no way with more than one coordinate
ReturnStraightLine ==
    /\ pc = "findBestPath"
    /\ Len(ways) = 0 \/ Len(SegmentsOf(ways)) = 0
    /\ geometry' = StraightLine(origin, destination)
    /\ pc' = "returned"
    /\ UNCHANGED <<ways, origin, destination, graph, startKey, endKey, search,
                   nodePath, coordPath, validatedPath, stages, turnVars, routeVars,
                   greedyVars, journeyVars,
                   storeVars, callVars, railVars, pageVars>>

\* part_000:138-146
BuildGraph ==
    /\ pc = "findBestPath"
    /\ Len(ways) # 0 /\ Len(SegmentsOf(ways)) # 0
    /\ LET g == buildRailwayGraph(SegmentsOf(ways))
           startNode == findClosestNode(g, PointOf(origin))
           endNode == findClosestNode(g, PointOf(destination))
       IN  /\ graph' = g
           /\ IF startNode = 0 \/ endNode = 0
              THEN /\ geometry' = StraightLine(origin, destination)
                   /\ pc' = "returned"
                   /\ UNCHANGED <<startKey, endKey>>
              ELSE /\ startKey' = g[startNode].key
                   /\ endKey' = g[endNode].key
                   /\ pc' = "dijkstra"
                   /\ UNCHANGED geometry
    /\ stages' = Append(stages, "graph")
    /\ UNCHANGED <<ways, origin, destination, search, nodePath, coordPath,
                   validatedPath, turnVars, routeVars,
                   greedyVars, journeyVars,
                   storeVars, callVars, railVars, pageVars>>

\* part_000:149-152
Search ==
    /\ pc = "dijkstra"
    /\ search' = DijkstraSearch(graph, startKey, endKey)
    /\ nodePath' = NodePathOf(search', startKey, endKey)
    /\ pc' = IF UseGreedy(nodePath') THEN "greedy" ELSE "coords"
    /\ stages' = Append(stages, "search")
    /\ UNCHANGED <<ways, origin, destination, graph, startKey, endKey,
                   coordPath, validatedPath, geometry, turnVars, routeVars,
                   greedyVars, journeyVars,
                   storeVars, callVars, railVars, pageVars>>

\* part_000:154
Greedy ==
    /\ pc = "greedy"
    /\ coordPath' = followSegmentsGreedy(SegmentsOf(ways), PointOf(origin),
                                         PointOf(destination))
    /\ pc' = "validate"
    /\ stages' = Append(stages, "greedy")
    /\ UNCHANGED <<ways, origin, destination, graph, startKey, endKey, search,
                   nodePath, validatedPath, geometry, turnVars, routeVars,
                   greedyVars, journeyVars,
                   storeVars, callVars, railVars, pageVars>>

\* part_000:157
BuildCoords ==
    /\ pc = "coords"
    /\ coordPath' = buildCoordPath(graph, nodePath, PointOf(origin),
                                   PointOf(destination))
    /\ pc' = "validate"
    /\ stages' = Append(stages, "coords")
    /\ UNCHANGED <<ways, origin, destination, graph, startKey, endKey, search,
                   nodePath, validatedPath, geometry, turnVars, routeVars,
                   greedyVars, journeyVars,
                   storeVars, callVars, railVars, pageVars>>

\* part_000:161
Validate ==
    /\ pc = "validate"
    /\ validatedPath' = validatePath(coordPath, PointOf(origin), PointOf(destination))
    /\ pc' = "simplify"
    /\ stages' = Append(stages, "validate")
    /\ UNCHANGED <<ways, origin, destination, graph, startKey, endKey, search,
                   nodePath, coordPath, geometry, turnVars, routeVars,
                   greedyVars, journeyVars,
                   storeVars, callVars, railVars, pageVars>>

\* part_000:163
Simplify ==
    /\ pc = "simplify"
    /\ geometry' = simplifyPath(validatedPath, SimplifyThreshold)
    /\ pc' = "returned"
    /\ stages' = Append(stages, "simplify")
    /\ UNCHANGED <<ways, origin, destination, graph, startKey, endKey, search,
                   nodePath, coordPath, validatedPath, turnVars, routeVars,
                   greedyVars, journeyVars,
                   storeVars, callVars, railVars, pageVars>>

Next ==
    \/ ReturnStraightLine
    \/ BuildGraph
    \/ Search
    \/ Greedy
    \/ BuildCoords
    \/ Validate
    \/ Simplify

Spec == Init /\ [][Next]_vars

(***************************************************************************)
(* Properties of findBestPath (Spec)                                       *)
(***************************************************************************)
StageSet == {stages[i] : i \in 1..Len(stages)}

IsPrefix(s, t) == Len(s) <= Len(t) /\ \A i \in 1..Len(s) : s[i] = t[i]

\* C1: whatever the ways and the stations, the sequence findBestPath
\* returns has at least 2 points.
C1_AtLeastTwoPoints == pc = "returned" => Len(geometry) >= 2

\* a path of 3 points that simplifyPath cut down to 2
C1_Witness ==
    /\ pc = "returned"
    /\ "simplify" \in StageSet
    /\ Len(validatedPath) = 3
    /\ Len(geometry) = 2

\* C2: with no way at all, or no way of at least 2 coordinates,
\* findBestPath returns exactly [origin, destination].
C2_NoSegmentsStraightLine ==
    (pc = "returned" /\ \A i \in 1..Len(ways) : Len(ways[i].geometry) < 2)
        => geometry = <<<<origin.lat, origin.lng>>, <<destination.lat, destination.lng>>>>

\* ways were supplied, none of them usable, and the call returned
C2_Witness ==
    /\ pc = "returned"
    /\ Len(ways) = MaxWays
    /\ \A i \in 1..Len(ways) : Len(ways[i].geometry) < 2
    /\ origin # destination

\* C3: the returned path starts with the literal origin and ends with the
\* literal destination.
C3_LiteralEnds ==
    pc = "returned" =>
        /\ geometry[1] = <<origin.lat, origin.lng>>
        /\ geometry[Len(geometry)] = <<destination.lat, destination.lng>>

\* a graph path that survived validation and kept an interior point, its
\* end nodes lying elsewhere than the stations
C3_Witness ==
    /\ pc = "returned"
    /\ "coords" \in StageSet
    /\ validatedPath = coordPath
    /\ Len(geometry) > 2
    /\ <<graph[NodeIndex(graph, startKey)].lat, graph[NodeIndex(graph, startKey)].lng>>
           # <<origin.lat, origin.lng>>

\* C6: the stages run in a fixed order: after the graph search the greedy
\* assembler runs exactly when the node path is null or has fewer than 2
\* nodes, otherwise the node path is expanded; the resulting path goes to
\* validatePath and its output to simplifyPath.
C6_StageOrder ==
    /\ "search" \in StageSet =>
          /\ IsPrefix(stages,
                      IF nodePath = <<>> \/ Len(nodePath) < 2
                      THEN <<"graph", "search", "greedy", "validate", "simplify">>
                      ELSE <<"graph", "search", "coords", "validate", "simplify">>)
          /\ pc = "returned" => Len(stages) = 5
    /\ "search" \notin StageSet => IsPrefix(stages, <<"graph">>)
    /\ "validate" \in StageSet =>
          validatedPath = validatePath(coordPath, <<origin.lat, origin.lng>>,
                                       <<destination.lat, destination.lng>>)
    /\ "simplify" \in StageSet => geometry = simplifyPath(validatedPath, SimplifyThreshold)

\* origin and destination snap to the same nearest node: the search gives a
\* one-node path and the greedy assembler ran
C6_Witness ==
    /\ pc = "returned"
    /\ Len(nodePath) = 1
    /\ "greedy" \in StageSet
    /\ origin # destination

\* the coordinates of the edges the relaxation recorded along nodePath, each
\* without its first coordinate
RECURSIVE RecordedCoords(_, _, _)
RecordedCoords(st, path, i) ==
    IF i > Len(path) THEN <<>>
    ELSE Tail(st.previous[path[i]][1].edge.coords) \o RecordedCoords(st, path, i + 1)

\* C7: the expanded path is the origin, then for each consecutive node pair
\* the coordinates of the edge the relaxation recorded for it (without the
\* first), then the destination.
C7_RecordedEdgesExpanded ==
    "coords" \in StageSet =>
        coordPath = <<<<origin.lat, origin.lng>>>> \o RecordedCoords(search, nodePath, 2)
                        \o <<<<destination.lat, destination.lng>>>>

\* the places of the edges of a graph: <<node position, edge position>>
EdgeSlots(g) ==
    UNION {{<<i, j>> : j \in 1..Len(g[i].edges)} : i \in 1..Len(g)}

\* sum of the distances between consecutive coordinates
RECURSIVE SummedLength(_)
SummedLength(coords) ==
    IF Len(coords) < 2 THEN 0
    ELSE distance(coords[1], coords[2]) + SummedLength(Tail(coords))

\* the cell of 0.001 degrees a coordinate is rounded to (a half goes up)
SnapCell(p) == <<(p[1] + 1) \div 2, (p[2] + 1) \div 2>>

\* the key of a cell: its two numbers with 4 decimals
KeyOfCell(c) == <<10 * c[1], 10 * c[2]>>

\* the ways with at least 2 coordinates
UsableWays == {k \in 1..Len(ways) : Len(ways[k].geometry) >= 2}

\* C13: for every segment with at least 2 coordinates the graph holds
\* exactly two edges: one from its start node to its end node with the
\* coordinates as given, one from its end node to its start node with the
\* coordinates reversed, both with the same non-negative weight, the summed
\* length of the coordinates; edges are never merged: the graph has twice
\* as many edges as there are such segments.
C13_TwoEdgesPerSegment ==
    "graph" \in StageSet =>
        /\ Cardinality(EdgeSlots(graph)) = 2 * Cardinality(UsableWays)
        /\ \A k \in UsableWays :
              LET c == ways[k].geometry
                  slots == {e \in EdgeSlots(graph) :
                              graph[e[1]].edges[e[2]].segmentId = ways[k].id}
              IN  /\ Cardinality(slots) = 2
                  /\ \E f \in slots, b \in slots :
                        /\ f # b
                        /\ graph[f[1]].key = KeyOfCell(SnapCell(c[1]))
                        /\ graph[f[1]].edges[f[2]].to = KeyOfCell(SnapCell(c[Len(c)]))
                        /\ graph[f[1]].edges[f[2]].coords = c
                        /\ graph[b[1]].key = KeyOfCell(SnapCell(c[Len(c)]))
                        /\ graph[b[1]].edges[b[2]].to = KeyOfCell(SnapCell(c[1]))
                        /\ graph[b[1]].edges[b[2]].coords = [i \in 1..Len(c) |-> c[Len(c) + 1 - i]]
                        /\ graph[f[1]].edges[f[2]].length = SummedLength(c)
                        /\ graph[b[1]].edges[b[2]].length = SummedLength(c)
                        /\ SummedLength(c) >= 0

\* two segments of different length between the same two nodes: each node
\* holds two edges to the other
C13_Witness ==
    /\ "graph" \in StageSet
    /\ Cardinality(UsableWays) = 2
    /\ Len(graph) = 2
    /\ Len(graph[1].edges) = 2
    /\ graph[1].edges[1].to = graph[2].key
    /\ graph[1].edges[2].to = graph[2].key
    /\ graph[1].edges[1].length # graph[1].edges[2].length

\* the end points of the segments with at least 2 coordinates
Endpoints ==
    UNION {{ways[k].geometry[1], ways[k].geometry[Len(ways[k].geometry)]} : k \in UsableWays}

\* the positions of the nodes stored under the key of the cell of p
NodesFor(p) == {i \in 1..Len(graph) : graph[i].key = KeyOfCell(SnapCell(p))}

\* C14: the graph has exactly one node per distinct snap-key among the
\* segment end points: two end points share a node if and only if they
\* round to the same snap-key, every node is stored under its own key, and
\* every edge's target key names a node of the graph.
C14_OneNodePerSnapKey ==
    "graph" \in StageSet =>
        /\ Len(graph) = Cardinality({SnapCell(p) : p \in Endpoints})
        /\ \A p \in Endpoints : Cardinality(NodesFor(p)) = 1
        /\ \A p \in Endpoints, q \in Endpoints :
              NodesFor(p) = NodesFor(q) <=> SnapCell(p) = SnapCell(q)
        /\ \A i \in 1..Len(graph) :
              /\ <<graph[i].lat, graph[i].lng>> \in Endpoints
              /\ graph[i].key = KeyOfCell(SnapCell(<<graph[i].lat, graph[i].lng>>))
        /\ \A e \in EdgeSlots(graph) :
              \E i \in 1..Len(graph) : graph[i].key = graph[e[1]].edges[e[2]].to

\* two segments meet at end points that differ but round to the same key:
\* three nodes, the middle one with an edge of each segment
C14_Witness ==
    /\ "graph" \in StageSet
    /\ Cardinality(UsableWays) = 2
    /\ Cardinality(Endpoints) = 4
    /\ Len(graph) = 3
    /\ \E i \in 1..Len(graph) :
          /\ Len(graph[i].edges) = 2
          /\ graph[i].edges[1].segmentId # graph[i].edges[2].segmentId

(***************************************************************************)
(* findBestPath on segments that join: the stations (51.50, -0.10),        *)
(* (51.52, -0.08) and one beyond it, segments between (51.50, -0.10),      *)
(* (51.51, -0.09) and (51.52, -0.08); (51.5095, -0.09) rounds to the key   *)
(* of (51.51, -0.09).                                                      *)
(***************************************************************************)
JoinPoints == {<<103000, -200>>, <<103020, -180>>, <<103019, -180>>, <<103040, -160>>}

JoinStations == {[code |-> "KGX", lat |-> 103000, lng |-> -200],
                 [code |-> "STP", lat |-> 103040, lng |-> -160],
                 [code |-> "BYD", lat |-> 103045, lng |-> -155]}

JoinWays ==
    {[i \in 1..Len(g) |-> [id |-> i, geometry |-> g[i]]] :
        g \in UNION {[1..n -> UNION {[1..m -> JoinPoints] : m \in 0..MaxJoinCoords}] :
                        n \in 0..MaxWays}}

InitJoin ==
    /\ pc = "findBestPath"
    /\ ways \in JoinWays
    /\ origin \in JoinStations
    /\ destination \in JoinStations
    /\ NoGraph
    /\ coordPath = <<>>
    /\ validatedPath = <<>>
    /\ geometry = <<>>
    /\ stages = <<>>
    /\ NoTurn
    /\ NoRoute
    /\ NoGreedy
    /\ NoJourney
    /\ NoStore
    /\ NoCalls
    /\ NoRail
    /\ NoPage

SpecJoin == InitJoin /\ [][Next]_vars

(***************************************************************************)
(* Properties of findBestPath on joining segments (SpecJoin)               *)
(***************************************************************************)
\* a coordinate sequence read in either direction
Oriented(coords) == {coords, [i \in 1..Len(coords) |-> coords[Len(coords) + 1 - i]]}

\* point p lies nearer to end point e than to any other of the end points
NearestEnd(p, e, others) == \A q \in others : DistSq(p, e) < DistSq(p, q)

\* C15: for two segments whose adjoining end points round to the same key,
\* the origin nearest the far end of one and the destination nearest the
\* far end of the other, findBestPath returns a path that runs through the
\* junction of the two segments and is not the straight line [origin,
\* destination].
C15_JoinedSegmentsTraversed ==
    (pc = "returned" /\ Len(ways) = 2) =>
        \A k \in 1..2 :
            \A a \in Oriented(ways[k].geometry), b \in Oriented(ways[3 - k].geometry) :
                (/\ Len(a) >= 2
                 /\ Len(b) >= 2
                 /\ SnapCell(a[Len(a)]) = SnapCell(b[1])
                 /\ SnapCell(a[1]) # SnapCell(b[1])
                 /\ SnapCell(b[Len(b)]) # SnapCell(b[1])
                 /\ SnapCell(a[1]) # SnapCell(b[Len(b)])
                 /\ NearestEnd(<<origin.lat, origin.lng>>, a[1], {a[Len(a)], b[1], b[Len(b)]})
                 /\ NearestEnd(<<destination.lat, destination.lng>>, b[Len(b)],
                               {a[1], a[Len(a)], b[1]}))
                => /\ geometry # <<<<origin.lat, origin.lng>>,
                                    <<destination.lat, destination.lng>>>>
                   /\ \E i \in 1..Len(geometry) : SnapCell(geometry[i]) = SnapCell(b[1])

\* C16: from (51.50, -0.10) to (51.52, -0.08) over the segments
\* [(51.50, -0.10), (51.51, -0.09)] and [(51.51, -0.09), (51.52, -0.08)]
\* findBestPath returns exactly the three points (51.50, -0.10),
\* (51.51, -0.09), (51.52, -0.08).
C16_ScenarioThreePoints ==
    (/\ pc = "returned"
     /\ origin = [code |-> "KGX", lat |-> 103000, lng |-> -200]
     /\ destination = [code |-> "STP", lat |-> 103040, lng |-> -160]
     /\ ways = <<[id |-> 1, geometry |-> <<<<103000, -200>>, <<103020, -180>>>>],
                 [id |-> 2, geometry |-> <<<<103020, -180>>, <<103040, -160>>>>]>>)
        => geometry = <<<<103000, -200>>, <<103020, -180>>, <<103040, -160>>>>

\* C25: when origin and destination are the same point findBestPath
\* returns, for every segment set, exactly two points, both that point.
C25_SamePointTrivialPath ==
    (pc = "returned" /\ origin.lat = destination.lat /\ origin.lng = destination.lng) =>
        geometry = <<<<origin.lat, origin.lng>>, <<origin.lat, origin.lng>>>>

\* origin and destination are one station, segments were followed from it
\* and the path built was replaced by validatePath
C25_Witness ==
    /\ pc = "returned"
    /\ origin = destination
    /\ "simplify" \in StageSet
    /\ Len(coordPath) > 2
    /\ validatedPath # coordPath

(***************************************************************************)
(* dijkstra on its own: any graph buildRailwayGraph builds from up to      *)
(* MaxSearchWays ways, searched between any two of its nodes.  The ways    *)
(* join three places directly or over a detour far off the line.           *)
(***************************************************************************)
SearchEnds == {<<0, 0>>, <<30, 1>>, <<60, 0>>}
SearchDetour == <<30, 40>>

SearchGeometries ==
    [1..2 -> SearchEnds] \cup {<<p, SearchDetour, q>> : p \in SearchEnds, q \in SearchEnds}

SearchWays ==
    {[i \in 1..Len(g) |-> [id |-> i, geometry |-> g[i]]] :
        g \in UNION {[1..n -> SearchGeometries] : n \in 1..MaxSearchWays}}

InitSearch ==
    /\ pc = "build"
    /\ ways \in SearchWays
    /\ origin = <<>>
    /\ destination = <<>>
    /\ NoGraph
    /\ coordPath = <<>>
    /\ validatedPath = <<>>
    /\ geometry = <<>>
    /\ stages = <<>>
    /\ NoTurn
    /\ NoRoute
    /\ NoGreedy
    /\ NoJourney
    /\ NoStore
    /\ NoCalls
    /\ NoRail
    /\ NoPage

BuildSearchGraph ==
    /\ pc = "build"
    /\ graph' = buildRailwayGraph(SegmentsOf(ways))
    /\ pc' = "pick"
    /\ UNCHANGED <<ways, origin, destination, startKey, endKey, search, nodePath,
                   coordPath, validatedPath, geometry, stages, turnVars, routeVars,
                   greedyVars, journeyVars,
                   storeVars, callVars, railVars, pageVars>>

SearchBetween ==
    /\ pc = "pick"
    /\ \E s \in NodeKeys(graph), e \in NodeKeys(graph) :
          /\ startKey' = s
          /\ endKey' = e
          /\ search' = DijkstraSearch(graph, s, e)
          /\ nodePath' = NodePathOf(search', s, e)
    /\ pc' = "searched"
    /\ UNCHANGED <<ways, origin, destination, graph, coordPath, validatedPath,
                   geometry, stages, turnVars, routeVars,
                   greedyVars, journeyVars,
                   storeVars, callVars, railVars, pageVars>>

NextSearch == BuildSearchGraph \/ SearchBetween

SpecSearch == InitSearch /\ [][NextSearch]_vars

(***************************************************************************)
(* Properties of dijkstra (SpecSearch)                                     *)
(***************************************************************************)
SetMin(S) == CHOOSE x \in S : \A y \in S : x <= y

\* every edge of the graph as [from, to, length]
AllEdges(g) ==
    UNION {{[from |-> g[i].key, to |-> g[i].edges[j].to, length |-> g[i].edges[j].length] :
              j \in 1..Len(g[i].edges)} : i \in 1..Len(g)}

\* least weight of a node-to-node path of at most k edges from s to each node
RECURSIVE LeastWeights(_, _, _)
LeastWeights(g, s, k) ==
    IF k = 0 THEN [v \in NodeKeys(g) |-> IF v = s THEN 0 ELSE Infinity]
    ELSE LET d == LeastWeights(g, s, k - 1)
         IN  [v \in NodeKeys(g) |->
                 SetMin({d[v]} \cup {d[e.from] + e.length :
                                       e \in {x \in AllEdges(g) : x.to = v /\ d[x.from] < Infinity}})]

\* sum of the weights of the edges the relaxation recorded along path
RECURSIVE RecordedWeight(_, _, _)
RecordedWeight(st, path, i) ==
    IF i > Len(path) THEN 0
    ELSE st.previous[path[i]][1].edge.length + RecordedWeight(st, path, i + 1)

\* C5: when dijkstra returns a node path, the weights of the edges recorded
\* along it (each leading from one node of the path to the next) add up to
\* no more than the weight of any node-to-node path from start to end.
C5_ShortestPath ==
    (pc = "searched" /\ nodePath # <<>>) =>
        /\ nodePath[1] = startKey
        /\ nodePath[Len(nodePath)] = endKey
        /\ \A i \in 2..Len(nodePath) :
              /\ search.previous[nodePath[i]][1].from = nodePath[i - 1]
              /\ search.previous[nodePath[i]][1].edge.to = nodePath[i]
        /\ RecordedWeight(search, nodePath, 2)
              <= LeastWeights(graph, startKey, Len(graph))[endKey]

\* a path over two edges found although a heavier direct edge from start to
\* end was relaxed first
C5_Witness ==
    /\ pc = "searched"
    /\ Len(nodePath) = 3
    /\ \E e \in AllEdges(graph) :
          /\ e.from = startKey
          /\ e.to = endKey
          /\ e.length > RecordedWeight(search, nodePath, 2)
    /\ graph[NodeIndex(graph, startKey)].edges[1].to = endKey

(***************************************************************************)
(* validatePath and simplifyPath on any path, simplifyPath step by step    *)
(***************************************************************************)
\* (50, 0) and (51, 0) lie closer together than the minimum spacing;
\* (50, 30) lies off the line between the two stations
PathPoints == {<<0, 0>>, <<50, 0>>, <<51, 0>>, <<50, 30>>, <<100, 0>>}

PathStations == {[code |-> "AAA", lat |-> 0, lng |-> 0],
                 [code |-> "BBB", lat |-> 100, lng |-> 0]}

InitPath ==
    /\ pc = "validatePath"
    /\ ways = <<>>
    /\ origin \in PathStations
    /\ destination \in PathStations
    /\ NoGraph
    /\ coordPath \in UNION {[1..n -> PathPoints] : n \in 0..MaxPathLen}
    /\ validatedPath = <<>>
    /\ geometry = <<>>
    /\ stages = <<>>
    /\ NoTurn
    /\ NoRoute
    /\ NoGreedy
    /\ NoJourney
    /\ NoStore
    /\ NoCalls
    /\ NoRail
    /\ NoPage

\* part_000:161
ValidateGiven ==
    /\ pc = "validatePath"
    /\ validatedPath' = validatePath(coordPath, PointOf(origin), PointOf(destination))
    /\ pc' = "simplifyPath"
    /\ UNCHANGED <<inputVars, graphVars, coordPath, geometry, stages, turnVars, routeVars,
                   greedyVars, journeyVars,
                   storeVars, callVars, railVars, pageVars>>

\* part_000:509
SimplifyShort ==
    /\ pc = "simplifyPath"
    /\ Len(validatedPath) <= 2
    /\ geometry' = validatedPath
    /\ pc' = "returned"
    /\ UNCHANGED <<inputVars, graphVars, coordPath, validatedPath, stages, turnVars,
                   routeVars,
                   greedyVars, journeyVars,
                   storeVars, callVars, railVars, pageVars>>

\* part_000:512-534: the first pass, then the entry of removeSharpTurns
FirstPass ==
    /\ pc = "simplifyPath"
    /\ Len(validatedPath) > 2
    /\ simplified' = DedupPass(validatedPath, SimplifyThreshold)
    /\ IF Len(simplified') > 2 /\ ~(Len(simplified') <= 3)
       THEN /\ result' = <<simplified'[1], simplified'[2]>>
            /\ idx' = 3
            /\ pc' = "removeSharpTurns"
            /\ UNCHANGED geometry
       ELSE /\ geometry' = simplified'
            /\ pc' = "returned"
            /\ UNCHANGED <<result, idx>>
    /\ UNCHANGED <<inputVars, graphVars, coordPath, validatedPath, stages, lastTurn,
                   routeVars,
                   greedyVars, journeyVars,
                   storeVars, callVars, railVars, pageVars>>

\* one iteration of the loop at part_000:536-550
TurnStep ==
    /\ pc = "removeSharpTurns"
    /\ idx <= Len(simplified)
    /\ result' = SharpTurnStep(result, simplified[idx])
    /\ lastTurn' = <<[prev |-> result[Len(result) - 1],
                      curr |-> result[Len(result)],
                      next |-> simplified[idx],
                      replaced |-> Len(result') = Len(result)]>>
    /\ idx' = idx + 1
    /\ UNCHANGED <<pc, inputVars, graphVars, coordPath, validatedPath, geometry, stages,
                   simplified, routeVars,
                   greedyVars, journeyVars,
                   storeVars, callVars, railVars, pageVars>>

\* part_000:552 and 525
TurnReturn ==
    /\ pc = "removeSharpTurns"
    /\ idx > Len(simplified)
    /\ geometry' = result
    /\ pc' = "returned"
    /\ UNCHANGED <<inputVars, graphVars, coordPath, validatedPath, stages, turnVars,
                   routeVars,
                   greedyVars, journeyVars,
                   storeVars, callVars, railVars, pageVars>>

NextPath == ValidateGiven \/ SimplifyShort \/ FirstPass \/ TurnStep \/ TurnReturn

SpecPath == InitPath /\ [][NextPath]_vars

(***************************************************************************)
(* Properties of validatePath and simplifyPath (SpecPath)                  *)
(***************************************************************************)
\* the steps of a path that move away from the destination by more than 0.02
BacktrackSteps(path, dest) ==
    {i \in 2..Len(path) :
        distance(path[i], dest) > distance(path[i - 1], dest) + 40 * DistScale}

RECURSIVE TotalLength(_)
TotalLength(path) ==
    IF Len(path) < 2 THEN 0
    ELSE distance(path[1], path[2]) + TotalLength(Tail(path))

\* at most 20% backtracking steps and no longer than 3 times the direct distance
Plausible(path, from, dest) ==
    /\ TotalLength(path) <= 3 * distance(from, dest)
    /\ 5 * Cardinality(BacktrackSteps(path, dest)) <= Len(path)

\* C8: validatePath returns its input unchanged or exactly [origin,
\* destination]; unchanged if and only if the path has at least 2 points,
\* its length is at most 3 times the direct distance and at most 20% of its
\* points are backtracking steps.
C8_ValidateContract ==
    pc # "validatePath" =>
        LET from == <<origin.lat, origin.lng>>
            dest == <<destination.lat, destination.lng>>
        IN  /\ validatedPath = coordPath \/ validatedPath = <<from, dest>>
            /\ validatedPath = coordPath
                  <=> (Len(coordPath) >= 2 /\ Plausible(coordPath, from, dest))

\* a path of 5 points with exactly one backtracking step and a length of
\* exactly 3 times the direct distance came back unchanged
C8_Witness ==
    /\ pc = "simplifyPath"
    /\ Len(coordPath) = 5
    /\ Cardinality(BacktrackSteps(coordPath, <<destination.lat, destination.lng>>)) = 1
    /\ TotalLength(coordPath)
          = 3 * distance(<<origin.lat, origin.lng>>, <<destination.lat, destination.lng>>)
    /\ validatedPath = coordPath
    /\ coordPath # <<<<origin.lat, origin.lng>>, <<destination.lat, destination.lng>>>>

\* the path folds back sharply at curr: the angle at curr between the
\* directions to prev and to next is below 60 degrees (cosine above 1/2)
FoldsBack(prev, curr, next) ==
    LET toPrev == <<prev[1] - curr[1], prev[2] - curr[2]>>
        toNext == <<next[1] - curr[1], next[2] - curr[2]>>
        dot == toPrev[1] * toNext[1] + toPrev[2] * toNext[2]
    IN  /\ dot > 0
        /\ 4 * dot * dot > (toPrev[1] * toPrev[1] + toPrev[2] * toPrev[2])
                             * (toNext[1] * toNext[1] + toNext[2] * toNext[2])

\* C9: in the second pass the last result point is replaced by the
\* candidate exactly when the path folds back sharply there (a turn sharper
\* than 120 degrees); where it runs straight on or turns gently the
\* candidate is appended.
C9_ReplacedIffFoldBack ==
    lastTurn # <<>> =>
        (lastTurn[1].replaced
            <=> FoldsBack(lastTurn[1].prev, lastTurn[1].curr, lastTurn[1].next))

\* consecutive points lie farther apart than the minimum spacing
Spaced(path) ==
    \A i \in 2..Len(path) : DistSq(path[i - 1], path[i]) > 2 * 2

StepwiseSimplifyAgrees ==
    pc = "returned" => geometry = simplifyPath(validatedPath, SimplifyThreshold)

\* C11: sharp-turn removal is applied whenever at least 3 points remain
\* after the first pass: when 3 points remain and calculateAngle gives less
\* than 60 degrees at the middle one, simplifyPath returns the 2 points
\* [first, last].
C11_ThreePointTurnRemoved ==
    (/\ pc = "returned"
     /\ Len(simplified) = 3
     /\ AngleBelow60(simplified[1], simplified[2], simplified[3]))
        => geometry = <<simplified[1], simplified[3]>>

\* s is t with some of its elements left out
RECURSIVE IsSubsequence(_, _)
IsSubsequence(s, t) ==
    IF s = <<>> THEN TRUE
    ELSE IF t = <<>> THEN FALSE
    ELSE IF Head(s) = Head(t) /\ IsSubsequence(Tail(s), Tail(t)) THEN TRUE
    ELSE IsSubsequence(s, Tail(t))

\* C12: after the first pass of simplifyPath on a path of more than 2
\* points the first and the last input points are kept, the kept points are
\* a subsequence of the input, and every kept interior point lies farther
\* than minSpacing from the kept point immediately before it.
C12_FirstPassKeeps ==
    (pc \in {"removeSharpTurns", "returned"} /\ Len(validatedPath) > 2) =>
        /\ simplified[1] = validatedPath[1]
        /\ simplified[Len(simplified)] = validatedPath[Len(validatedPath)]
        /\ Len(simplified) >= 2
        /\ IsSubsequence(simplified, validatedPath)
        /\ \A i \in 2..(Len(simplified) - 1) :
              DistSq(simplified[i - 1], simplified[i]) > 2 * 2

\* a path of 5 points lost an interior point that lay too close to the one
\* kept before it, and kept its last point although that one lies as close
C12_Witness ==
    /\ pc \in {"removeSharpTurns", "returned"}
    /\ Len(validatedPath) = 5
    /\ Len(simplified) = 4
    /\ DistSq(simplified[3], simplified[4]) <= 2 * 2

(***************************************************************************)
(* followSegmentsGreedy, pass by pass                                      *)
(***************************************************************************)
\* segments of 2 coordinates along the line from (0, 0) to (100, 0):
\* (3, 0) and (8, 0) connect to (0, 0), (-50, 0) lies behind it, (95, 0)
\* lies close to (100, 0); the station at (15, 0) lies close to (0, 0)
GreedyPoints == {<<3, 0>>, <<8, 0>>, <<50, 0>>, <<-50, 0>>, <<95, 0>>}

GreedyStations == {[code |-> "AAA", lat |-> 0, lng |-> 0],
                   [code |-> "BBB", lat |-> 100, lng |-> 0],
                   [code |-> "CCC", lat |-> 15, lng |-> 0]}

GreedyWays ==
    {[i \in 1..Len(g) |-> [id |-> i, geometry |-> g[i]]] :
        g \in UNION {[1..n -> [1..2 -> GreedyPoints]] : n \in 0..MaxGreedyWays}}

\* before the call
InitGreedy ==
    /\ pc = "followSegmentsGreedy"
    /\ ways = <<>>
    /\ origin = <<>>
    /\ destination = <<>>
    /\ NoGraph
    /\ coordPath = <<>>
    /\ validatedPath = <<>>
    /\ geometry = <<>>
    /\ stages = <<>>
    /\ NoTurn
    /\ NoRoute
    /\ NoGreedy
    /\ NoJourney
    /\ NoStore
    /\ NoCalls
    /\ NoRail
    /\ NoPage

\* the call with its arguments, part_000:409-423
GreedyEnter ==
    /\ pc = "followSegmentsGreedy"
    /\ ways' \in GreedyWays
    /\ origin' \in GreedyStations
    /\ destination' \in GreedyStations
    /\ corridor' = CorridorSegments(SegmentsOf(ways'), PointOf(origin'),
                                    PointOf(destination'), GreedyMargin)
    /\ IF Len(corridor') = 0
       THEN /\ coordPath' = <<PointOf(origin'), PointOf(destination')>>
            /\ pc' = "returned"
            /\ UNCHANGED greedy
       ELSE /\ greedy' = [path |-> <<PointOf(origin')>>,
                          usedSegments |-> {},
                          currentPos |-> PointOf(origin'),
                          distToDest |-> distance(PointOf(origin'), PointOf(destination')),
                          stop |-> FALSE]
            /\ pc' = "while"
            /\ UNCHANGED coordPath
    /\ UNCHANGED <<graphVars, validatedPath, geometry, stages, turnVars,
                   routeVars, lastPick, iterations, journeyVars,
                   storeVars, callVars, railVars, pageVars>>

\* one pass of the while loop, part_000:426-485
GreedyIterate ==
    /\ pc = "while"
    /\ ~greedy.stop
    /\ Cardinality(greedy.usedSegments) < Len(corridor)
    /\ greedy' = GreedyStep(corridor, PointOf(destination), greedy)
    /\ lastPick' = <<[currentPos |-> greedy.currentPos,
                      distToDest |-> greedy.distToDest,
                      usedSegments |-> greedy.usedSegments,
                      path |-> greedy.path,
                      chosen |-> greedy'.usedSegments \ greedy.usedSegments]>>
    /\ iterations' = iterations + 1
    /\ UNCHANGED <<pc, inputVars, graphVars, coordPath, validatedPath, geometry, stages,
                   turnVars, routeVars, corridor, journeyVars,
                   storeVars, callVars, railVars, pageVars>>

\* the loop has ended, part_000:487-488
GreedyReturn ==
    /\ pc = "while"
    /\ greedy.stop \/ ~(Cardinality(greedy.usedSegments) < Len(corridor))
    /\ coordPath' = Append(greedy.path, PointOf(destination))
    /\ pc' = "returned"
    /\ UNCHANGED <<inputVars, graphVars, validatedPath, geometry, stages, turnVars,
                   routeVars, greedyVars, journeyVars,
                   storeVars, callVars, railVars, pageVars>>

NextGreedy == GreedyEnter \/ GreedyIterate \/ GreedyReturn

SpecGreedy == InitGreedy /\ [][NextGreedy]_vars

\* a step of the running call, by what it does to pc and iterations
GreedyRuns ==
    /\ pc # "returned"
    /\ pc' \in {"while", "returned"}
    /\ iterations' \in {iterations, iterations + 1}

\* the call runs on until it returns: synchronous code is not suspended
SpecGreedyFair == SpecGreedy /\ WF_<<pc, iterations>>(GreedyRuns)

(***************************************************************************)
(* Properties of followSegmentsGreedy (SpecGreedy)                         *)
(***************************************************************************)
\* the pass-by-pass run returns what followSegmentsGreedy returns
StepwiseGreedyAgrees ==
    pc = "returned" =>
        coordPath = followSegmentsGreedy(SegmentsOf(ways), PointOf(origin),
                                         PointOf(destination))

\* the end of corridor segment i that counts as far from pos: the first
\* coordinate when the last one is the nearer, else the last
FarEnd(i, pos) ==
    LET c == corridor[i].coords
    IN  IF DistSq(pos, c[Len(c)]) < DistSq(pos, c[1]) THEN c[1] ELSE c[Len(c)]

\* distance from pos to the nearer end of corridor segment i
ConnectionDistance(i, pos) ==
    LET c == corridor[i].coords
        toFirst == distance(pos, c[1])
        toLast == distance(pos, c[Len(c)])
    IN  IF toFirst < toLast THEN toFirst ELSE toLast

\* how much nearer to the destination the far end of segment i is than pos
ProgressMade(i, pos) ==
    distance(pos, <<destination.lat, destination.lng>>)
        - distance(FarEnd(i, pos), <<destination.lat, destination.lng>>)

\* the unused corridor segments whose nearer end is within 0.005 of pos and
\* whose far end is at most 0.02 farther from the destination than pos
Qualifying(used, pos) ==
    {i \in 1..Len(corridor) :
        /\ i \notin used
        /\ \E e \in {corridor[i].coords[1], corridor[i].coords[Len(corridor[i].coords)]} :
              DistSq(pos, e) <= 10 * 10
        /\ ProgressMade(i, pos) >= -(40 * DistScale)}

\* C17: in each pass the segment chosen is one of the unused corridor
\* segments whose nearer end is within 0.005 of the current position and
\* whose far end is at most 0.02 farther from the destination than the
\* current position, and among these it minimises connection distance
\* minus 2 times progress; a segment failing either condition is never
\* chosen, and none is chosen only when none qualifies.
C17_ChosenIsBestQualifying ==
    lastPick # <<>> =>
        LET pos == lastPick[1].currentPos
            q == Qualifying(lastPick[1].usedSegments, pos)
        IN  /\ lastPick[1].chosen \subseteq q
            /\ lastPick[1].chosen = {} <=> q = {}
            /\ \A i \in lastPick[1].chosen : \A j \in q :
                  ConnectionDistance(i, pos) - 2 * ProgressMade(i, pos)
                      <= ConnectionDistance(j, pos) - 2 * ProgressMade(j, pos)

\* two segments qualified and the second in order, with the better score,
\* was chosen
C17_Witness ==
    /\ lastPick # <<>>
    /\ Cardinality(Qualifying(lastPick[1].usedSegments, lastPick[1].currentPos)) = 2
    /\ lastPick[1].chosen = {2}
    /\ ConnectionDistance(2, lastPick[1].currentPos)
          > ConnectionDistance(1, lastPick[1].currentPos)

\* each pass of the loop marks exactly one corridor segment that was unused
\* as used, or it is the last pass; the loop has made at most as many
\* passes as there are corridor segments
PassesBounded ==
    /\ iterations <= Len(corridor)
    /\ lastPick # <<>> =>
          /\ \/ /\ Cardinality(lastPick[1].chosen) = 1
                /\ lastPick[1].chosen \cap lastPick[1].usedSegments = {}
                /\ greedy.usedSegments = lastPick[1].usedSegments \cup lastPick[1].chosen
                /\ Cardinality(greedy.usedSegments) = iterations
             \/ /\ lastPick[1].chosen = {}
                /\ greedy.stop
                /\ greedy.usedSegments = lastPick[1].usedSegments
                /\ greedy.path = lastPick[1].path
          /\ greedy.usedSegments \subseteq 1..Len(corridor)

\* C18: followSegmentsGreedy terminates for every input: each pass of the
\* loop marks one corridor segment that was unused as used or ends the
\* loop, so no segment is appended twice, the loop makes at most as many
\* passes as there are corridor segments, and the call returns.
C18_Terminates == []PassesBounded /\ <>(pc = "returned")

\* the loop used every corridor segment and ended for want of another
C18_Witness ==
    /\ pc = "returned"
    /\ Len(corridor) = MaxGreedyWays
    /\ iterations = Len(corridor)
    /\ ~greedy.stop

\* C19 as stated: no segment is appended while the current position is
\* within 0.01 of the destination, the origin included.
C19_NoAppendNearDestination ==
    (lastPick # <<>> /\ lastPick[1].chosen # {}) =>
        ~(DistSq(lastPick[1].currentPos, <<destination.lat, destination.lng>>) < 20 * 20)

\* C19 as amended: no segment is appended once a pass has brought the
\* current position within 0.01 of the destination: the loop stops after
\* the pass whose segment ends that close.  Only in the first pass, which
\* starts at the origin, can a segment be appended from within 0.01.
C19_NoAppendAfterArrival ==
    /\ (lastPick # <<>> /\ lastPick[1].chosen # {} /\ lastPick[1].usedSegments # {}) =>
          ~(DistSq(lastPick[1].currentPos, <<destination.lat, destination.lng>>) < 20 * 20)
    /\ (lastPick # <<>> /\ lastPick[1].chosen # {}
          /\ DistSq(greedy.currentPos, <<destination.lat, destination.lng>>) < 20 * 20) =>
          greedy.stop

\* the loop stopped close to the destination and left unused a segment
\* that connects to the position reached
C19_Witness ==
    /\ pc = "returned"
    /\ iterations = 1
    /\ greedy.stop
    /\ lastPick[1].chosen # {}
    /\ Qualifying(greedy.usedSegments, greedy.currentPos) # {}

(***************************************************************************)
(* getRouteGeometry (part_000:55-111), one call after another              *)
(***************************************************************************)
\* a key made of the origin alone
CacheKey_OriginOnly(from, to) == <<from.code, "-", from.code>>

\* `${origin.code}-${destination.code}`
CacheKey(from, to) == <<from.code, "-", to.code>>

CacheKeys == {CacheKey(a, b) : a \in Stations, b \in Stations}

\* what data.elements can hold: at most one way between the two ends of the
\* track, of up to 2 coordinates
RouteElements ==
    {<<>>} \cup {<<[id |-> 1, geometry |-> g]>> :
                    g \in UNION {[1..n -> {<<0, 0>>, <<60, 0>>}] : n \in 0..2}}

\* CACHE_DURATION, part_000:13, in days
CACHE_DURATION == 7

NoEntries == [k \in CacheKeys |-> <<>>]

\* saveCache, part_000:34-47: every entry of the map is written under one
\* timestamp.  JSON.stringify and JSON.parse give back equal arrays of
\* finite numbers.
saveCache(cache, t) == <<[data |-> cache, timestamp |-> t]>>

\* initCache, part_000:16-31: the map a page starts with at time t
initCache(storage, t) ==
    IF storage # <<>> /\ t - storage[1].timestamp < CACHE_DURATION
    THEN storage[1].data
    ELSE NoEntries

\* nothing stored, at time 0
EmptyStore == now = 0 /\ localStorage = <<>> /\ writtenAt = NoEntries

InitRoute ==
    /\ pc = "idle"
    /\ ways = <<>>
    /\ origin \in Stations
    /\ destination \in Stations
    /\ NoGraph
    /\ coordPath = <<>>
    /\ validatedPath = <<>>
    /\ geometry = <<>>
    /\ stages = <<>>
    /\ NoTurn
    /\ geometryCache = [k \in CacheKeys |-> <<>>]
    /\ outcome = ""
    /\ threw = FALSE
    /\ NoGreedy
    /\ NoJourney
    /\ EmptyStore
    /\ NoCalls
    /\ NoRail
    /\ NoPage

\* part_000:56-62: the pair is in the cache
CallCached ==
    /\ pc = "idle"
    /\ \E a \in Stations, b \in Stations :
          /\ geometryCache[CacheKey(a, b)] # <<>>
          /\ origin' = a
          /\ destination' = b
          /\ geometry' = geometryCache[CacheKey(a, b)][1]
    /\ outcome' = "cached"
    /\ threw' = FALSE
    /\ pc' = "returned"
    /\ UNCHANGED <<ways, graphVars, coordPath, validatedPath, stages, turnVars,
                   geometryCache,
                   greedyVars, journeyVars,
                   storeVars, callVars, railVars, pageVars>>

\* part_000:56-88: a miss, the request is sent
CallFetch ==
    /\ pc = "idle"
    /\ \E a \in Stations, b \in Stations :
          /\ geometryCache[CacheKey(a, b)] = <<>>
          /\ origin' = a
          /\ destination' = b
    /\ outcome' = ""
    /\ threw' = FALSE
    /\ pc' = "fetching"
    /\ UNCHANGED <<ways, graphVars, coordPath, validatedPath, geometry, stages,
                   turnVars, geometryCache,
                   greedyVars, journeyVars,
                   storeVars, callVars, railVars, pageVars>>

\* the catch block taking over with a thrown error
CatchFallback_Rethrow(from, to) == [threw |-> TRUE, value |-> <<>>]

\* the catch block, part_000:106-110
CatchFallback(from, to) == [threw |-> FALSE, value |-> StraightLine(from, to)]

\* a catch block that also stores the straight line under the pair's key
Caught_Stored(how) ==
    /\ pc = "fetching"
    /\ geometry' = CatchFallback(origin, destination).value
    /\ threw' = CatchFallback(origin, destination).threw
    /\ outcome' = how
    /\ pc' = "returned"
    /\ geometryCache' = [geometryCache EXCEPT ![CacheKey(origin, destination)] = <<geometry'>>]
    /\ localStorage' = saveCache(geometryCache', now)
    /\ writtenAt' = [writtenAt EXCEPT ![CacheKey(origin, destination)] = <<now>>]
    /\ UNCHANGED <<inputVars, graphVars, coordPath, validatedPath, stages, turnVars,
                   greedyVars, journeyVars, now, callVars, railVars, pageVars>>

\* an error thrown inside the try block at part_000:64-105
Caught(how) ==
    /\ pc = "fetching"
    /\ geometry' = CatchFallback(origin, destination).value
    /\ threw' = CatchFallback(origin, destination).threw
    /\ outcome' = how
    /\ pc' = "returned"
    /\ UNCHANGED <<inputVars, graphVars, coordPath, validatedPath, stages, turnVars,
                   geometryCache,
                   greedyVars, journeyVars,
                   storeVars, callVars, railVars, pageVars>>

\* part_000:82: fetch rejects (network error)
FetchRejected == Caught("rejected")

\* part_000:90-92: the response is not OK
ResponseNotOk == Caught("notOk")

\* part_000:94: response.json() rejects
BodyUnparsable == Caught("badBody")

\* part_000:94-105: the response is parsed, the path computed and cached
ResponseOk ==
    /\ pc = "fetching"
    /\ \E elements \in RouteElements :
          /\ ways' = elements
          /\ geometry' = findBestPath(elements, origin, destination)
    /\ geometryCache' =
          IF Len(geometry') > 0
          THEN [geometryCache EXCEPT ![CacheKey(origin, destination)] = <<geometry'>>]
          ELSE geometryCache
    /\ localStorage' =
          IF Len(geometry') > 0 THEN saveCache(geometryCache', now) ELSE localStorage
    /\ writtenAt' =
          IF Len(geometry') > 0
          THEN [writtenAt EXCEPT ![CacheKey(origin, destination)] = <<now>>]
          ELSE writtenAt
    /\ outcome' = "ok"
    /\ threw' = FALSE
    /\ pc' = "returned"
    /\ UNCHANGED <<origin, destination, graphVars, coordPath, validatedPath, stages,
                   turnVars,
                   greedyVars, journeyVars,
                   now, callVars, railVars, pageVars>>

\* the caller has the result; the next call can start
CallDone ==
    /\ pc = "returned"
    /\ pc' = "idle"
    /\ UNCHANGED <<inputVars, graphVars, coordPath, validatedPath, geometry, stages,
                   turnVars, routeVars,
                   greedyVars, journeyVars,
                   storeVars, callVars, railVars, pageVars>>

NextRoute ==
    \/ CallCached
    \/ CallFetch
    \/ FetchRejected
    \/ ResponseNotOk
    \/ BodyUnparsable
    \/ ResponseOk
    \/ CallDone

SpecRoute == InitRoute /\ [][NextRoute]_vars

(***************************************************************************)
(* Properties of getRouteGeometry (SpecRoute)                              *)
(***************************************************************************)
\* C4: when the fetch fails (network error, response not OK, unparsable
\* body) getRouteGeometry does not throw and returns exactly [origin,
\* destination], which is also what it returns when no segment is found.
C4_FetchFailureStraightLine ==
    (pc = "returned" /\ outcome \in {"rejected", "notOk", "badBody"}) =>
        /\ ~threw
        /\ geometry = <<<<origin.lat, origin.lng>>, <<destination.lat, destination.lng>>>>
        /\ geometry = findBestPath(<<>>, origin, destination)

\* a call between two different stations ended on an unparsable body while
\* another pair was already cached
C4_Witness ==
    /\ pc = "returned"
    /\ outcome = "badBody"
    /\ origin # destination
    /\ \E k \in CacheKeys : geometryCache[k] # <<>>
    /\ geometryCache[CacheKey(origin, destination)] = <<>>


(***************************************************************************)
(* getJourneyGeometry (part_000:588-605), one call after another.  An      *)
(* array is shared by reference: the array getRouteGeometry returns for a  *)
(* pair it holds in the cache is the array in the cache, and a change made *)
(* to it by the caller is a change of the cache entry.                     *)
(***************************************************************************)
\* the legs a journey can have: from one station to another
LegPairs ==
    {p \in [origin : Stations, destination : Stations] : p.origin # p.destination}

\* journeys of up to MaxLegs legs, each leg starting where the one before ended
Journeys ==
    {j \in UNION {[1..n -> LegPairs] : n \in 0..MaxLegs} :
        \A i \in 2..Len(j) : j[i].origin = j[i - 1].destination}

InitJourney ==
    /\ pc = "idle"
    /\ ways = <<>>
    /\ origin = <<>>
    /\ destination = <<>>
    /\ NoGraph
    /\ coordPath = <<>>
    /\ validatedPath = <<>>
    /\ geometry = <<>>
    /\ stages = <<>>
    /\ NoTurn
    /\ geometryCache = [k \in CacheKeys |-> <<>>]
    /\ outcome = ""
    /\ threw = FALSE
    /\ NoGreedy
    /\ NoJourney
    /\ EmptyStore
    /\ NoCalls
    /\ NoRail
    /\ NoPage

\* part_000:589-593: the call; without legs it returns [] at once
JourneyStart ==
    /\ pc = "idle"
    /\ legs' \in Journeys
    /\ allCoords' = <<>>
    /\ legGeometries' = <<>>
    /\ IF Len(legs') = 0
       THEN pc' = "journeyReturned" /\ legIdx' = 0
       ELSE pc' = "leg" /\ legIdx' = 1
    /\ UNCHANGED <<inputVars, graphVars, coordPath, validatedPath, geometry, stages,
                   turnVars, routeVars, greedyVars,
                   storeVars, callVars, railVars, pageVars>>

\* part_000:597-601: legGeometry after the shift, if any
ShiftedLeg(all, legGeometry) ==
    IF Len(all) > 0 /\ Len(legGeometry) > 0 THEN Tail(legGeometry) ELSE legGeometry

\* the rest of the loop body once getRouteGeometry has returned legGeometry
\* for the leg awaited; stored tells that legGeometry is the array the
\* cache holds for the pair
LegDone(legGeometry, stored, cache) ==
    /\ legGeometries' = Append(legGeometries, legGeometry)
    /\ LET leg == legs[legIdx]
           shifted == ShiftedLeg(allCoords, legGeometries'[Len(legGeometries')])
       IN  /\ allCoords' = allCoords \o shifted
           /\ geometryCache' =
                 IF stored
                 THEN [cache EXCEPT ![CacheKey(leg.origin, leg.destination)] = <<shifted>>]
                 ELSE cache
    /\ legIdx' = legIdx + 1
    /\ UNCHANGED <<pc, inputVars, graphVars, coordPath, validatedPath, geometry,
                   stages, turnVars, threw, greedyVars, legs, now, callVars,
                   railVars, pageVars>>

\* part_000:596 with part_000:59-62: the pair is in the cache
LegCached ==
    /\ pc = "leg"
    /\ legIdx <= Len(legs)
    /\ geometryCache[CacheKey(legs[legIdx].origin, legs[legIdx].destination)] # <<>>
    /\ outcome' = "cached"
    /\ UNCHANGED <<localStorage, writtenAt>>
    /\ LegDone(geometryCache[CacheKey(legs[legIdx].origin, legs[legIdx].destination)][1],
               TRUE, geometryCache)

\* part_000:596 with part_000:64-105: a miss, the path is computed and cached
LegFetched ==
    /\ pc = "leg"
    /\ legIdx <= Len(legs)
    /\ geometryCache[CacheKey(legs[legIdx].origin, legs[legIdx].destination)] = <<>>
    /\ outcome' = "ok"
    /\ \E elements \in RouteElements :
          LegDone(findBestPath(elements, legs[legIdx].origin, legs[legIdx].destination),
                  Len(legGeometries'[Len(legGeometries')]) > 0, geometryCache)
    /\ LET leg == legs[legIdx]
           g == legGeometries'[Len(legGeometries')]
           key == CacheKey(leg.origin, leg.destination)
       IN  /\ localStorage' =
                 IF Len(g) > 0
                 THEN saveCache([geometryCache EXCEPT ![key] = <<g>>], now)
                 ELSE localStorage
           /\ writtenAt' =
                 IF Len(g) > 0 THEN [writtenAt EXCEPT ![key] = <<now>>] ELSE writtenAt

\* part_000:596 with part_000:106-110: a miss and the fetch fails
LegFailed ==
    /\ pc = "leg"
    /\ legIdx <= Len(legs)
    /\ geometryCache[CacheKey(legs[legIdx].origin, legs[legIdx].destination)] = <<>>
    /\ outcome' = "rejected"
    /\ UNCHANGED <<localStorage, writtenAt>>
    /\ LegDone(CatchFallback(legs[legIdx].origin, legs[legIdx].destination).value,
               FALSE, geometryCache)

\* part_000:604
JourneyReturn ==
    /\ pc = "leg"
    /\ legIdx > Len(legs)
    /\ pc' = "journeyReturned"
    /\ UNCHANGED <<inputVars, graphVars, coordPath, validatedPath, geometry, stages,
                   turnVars, routeVars, greedyVars, journeyVars,
                   storeVars, callVars, railVars, pageVars>>

\* the caller has the coordinates; the next call can start
JourneyDone ==
    /\ pc = "journeyReturned"
    /\ pc' = "idle"
    /\ legs' = <<>>
    /\ legIdx' = 0
    /\ allCoords' = <<>>
    /\ legGeometries' = <<>>
    /\ outcome' = ""
    /\ UNCHANGED <<inputVars, graphVars, coordPath, validatedPath, geometry, stages,
                   turnVars, geometryCache, threw, greedyVars,
                   storeVars, callVars, railVars, pageVars>>

NextJourney ==
    \/ JourneyStart
    \/ LegCached
    \/ LegFetched
    \/ LegFailed
    \/ JourneyReturn
    \/ JourneyDone

SpecJourney == InitJourney /\ [][NextJourney]_vars

(***************************************************************************)
(* Properties of getJourneyGeometry (SpecJourney)                          *)
(***************************************************************************)
\* the first sequence in full, then each later one without its first element
RECURSIVE JoinLegs(_, _)
JoinLegs(gs, i) ==
    IF i > Len(gs) THEN <<>>
    ELSE (IF i = 1 \/ gs[i] = <<>> THEN gs[i] ELSE SubSeq(gs[i], 2, Len(gs[i])))
         \o JoinLegs(gs, i + 1)

\* C20: getJourneyGeometry returns the geometry getRouteGeometry gave for
\* the first leg in full, followed, for every later leg in order, by the
\* geometry getRouteGeometry gave for that leg without its first coordinate.
C20_LegsJoined ==
    pc = "journeyReturned" => allCoords = JoinLegs(legGeometries, 1)


(***************************************************************************)
(* getRouteGeometry and getJourneyGeometry called in any order, one call   *)
(* after another                                                           *)
(***************************************************************************)
\* the caller of getRouteGeometry has the result and the call's locals are
\* gone; the next call can start
RouteDone ==
    /\ pc = "returned"
    /\ pc' = "idle"
    /\ ways' = <<>>
    /\ origin' = <<>>
    /\ destination' = <<>>
    /\ geometry' = <<>>
    /\ outcome' = ""
    /\ UNCHANGED <<graphVars, coordPath, validatedPath, stages, turnVars,
                   geometryCache, threw, greedyVars, journeyVars, storeVars,
                   callVars, railVars, pageVars>>

NextService ==
    \/ CallCached
    \/ CallFetch
    \/ FetchRejected
    \/ ResponseNotOk
    \/ BodyUnparsable
    \/ ResponseOk
    \/ RouteDone
    \/ NextJourney

SpecService == InitJourney /\ [][NextService]_vars

(***************************************************************************)
(* Properties of the two calls together (SpecService)                      *)
(***************************************************************************)
\* C21: after any sequence of getRouteGeometry and getJourneyGeometry calls
\* every coordinate sequence getRouteGeometry returns, to a direct caller or
\* to getJourneyGeometry for a leg, has at least 2 points.
C21_RouteAtLeastTwoPoints ==
    /\ (pc = "returned" /\ ~threw) => Len(geometry) >= 2
    /\ \A i \in 1..Len(legGeometries) : Len(legGeometries[i]) >= 2

\* C22: a sequence held in the cache for a pair is not altered by any later
\* step of a getRouteGeometry or getJourneyGeometry call, and a cache hit
\* returns the sequence held for the pair asked for.
C22_StoredSequenceKept ==
    [][/\ \A k \in CacheKeys :
             geometryCache[k] # <<>> => geometryCache'[k] = geometryCache[k]
       /\ (pc = "idle" /\ pc' = "returned" /\ outcome' = "cached") =>
             geometry' = geometryCache[CacheKey(origin', destination')][1]]_vars


(***************************************************************************)
(* The cache over time: getRouteGeometry calls one after another, days     *)
(* passing, the page being loaded again, clearCache                        *)
(***************************************************************************)
\* the days on which something happens: an entry is 3, 4, 5, 7 or 8 days old
Instants == {0, 3, 7, 8}

\* time passes, between calls or while a request is under way
Tick ==
    /\ pc \in {"idle", "fetching"}
    /\ now' \in {t \in Instants : t > now}
    /\ UNCHANGED <<pc, inputVars, graphVars, coordPath, validatedPath, geometry,
                   stages, turnVars, routeVars, greedyVars, journeyVars,
                   localStorage, writtenAt, callVars, railVars, pageVars>>

\* the page is loaded again: the module starts with an empty Map and runs
\* initCache (part_000:11, 608)
Reload ==
    /\ pc = "idle"
    /\ geometryCache' = initCache(localStorage, now)
    /\ writtenAt' = [k \in CacheKeys |->
                        IF geometryCache'[k] = <<>> THEN <<>> ELSE writtenAt[k]]
    /\ UNCHANGED <<pc, inputVars, graphVars, coordPath, validatedPath, geometry,
                   stages, turnVars, outcome, threw, greedyVars, journeyVars,
                   now, localStorage, callVars, railVars, pageVars>>

\* clearCache, part_000:614-617
ClearCache ==
    /\ pc = "idle"
    /\ geometryCache' = NoEntries
    /\ localStorage' = <<>>
    /\ writtenAt' = NoEntries
    /\ UNCHANGED <<pc, inputVars, graphVars, coordPath, validatedPath, geometry,
                   stages, turnVars, outcome, threw, greedyVars, journeyVars,
                   now, callVars, railVars, pageVars>>

NextStore ==
    \/ CallCached
    \/ CallFetch
    \/ FetchRejected
    \/ ResponseNotOk
    \/ BodyUnparsable
    \/ ResponseOk
    \/ RouteDone
    \/ Tick
    \/ Reload
    \/ ClearCache

SpecStore == InitJourney /\ [][NextStore]_vars

(***************************************************************************)
(* Properties of the cache over time (SpecStore)                           *)
(***************************************************************************)
\* C23: an entry expires 7 days after it was written: no request is served
\* from the cache more than 7 days after the entry it hits was written,
\* whatever was written to other entries and whether or not the page was
\* loaded again in between.
C23_EntryExpiresAfterSevenDays ==
    (pc = "returned" /\ outcome = "cached") =>
        now - writtenAt[CacheKey(origin, destination)][1] <= CACHE_DURATION


(***************************************************************************)
(* getRouteGeometry called by several callers at once.  A call runs from   *)
(* its start to the fetch, from the response to response.json(), and from  *)
(* the parsed body to its return, each without interruption; between       *)
(* these the other calls run.  origin, destination, cacheKey, response,    *)
(* data and geometry are locals of the call; findBestPath runs inside one  *)
(* step on the elements of the call's own response.                        *)
(***************************************************************************)
Callers == 1..MaxCallers

\* what a response can hold: no way, or one way along the track
CallElements == {<<>>, <<[id |-> 1, geometry |-> <<<<0, 0>>, <<60, 0>>>>]>>}

IdleCall == [pc |-> "idle", origin |-> <<>>, destination |-> <<>>, elements |-> <<>>,
             outcome |-> "", seen |-> <<>>, geometry |-> <<>>]

InitConcurrent ==
    /\ pc = "concurrent"
    /\ ways = <<>>
    /\ origin = <<>>
    /\ destination = <<>>
    /\ NoGraph
    /\ coordPath = <<>>
    /\ validatedPath = <<>>
    /\ geometry = <<>>
    /\ stages = <<>>
    /\ NoTurn
    /\ geometryCache = NoEntries
    /\ outcome = ""
    /\ threw = FALSE
    /\ NoGreedy
    /\ NoJourney
    /\ EmptyStore
    /\ calls = [c \in Callers |-> IdleCall]
    /\ NoRail
    /\ NoPage

\* the pairs of the calls under way
PairsInFlight ==
    {<<calls[c].origin, calls[c].destination>> :
        c \in {x \in Callers : calls[x].pc \in {"fetching", "parsing"}}}

\* part_000:56-88: the call starts for a pair no call under way is for; a
\* hit returns the array of the cache, a miss sends the request
CallerBegin(c) ==
    /\ calls[c].pc = "idle"
    /\ \E a \in Stations, b \in Stations :
          /\ <<a, b>> \notin PairsInFlight
          /\ calls' = [calls EXCEPT ![c] =
                IF geometryCache[CacheKey(a, b)] # <<>>
                THEN [pc |-> "returned", origin |-> a, destination |-> b,
                      elements |-> <<>>, outcome |-> "cached",
                      seen |-> geometryCache[CacheKey(a, b)],
                      geometry |-> geometryCache[CacheKey(a, b)][1]]
                ELSE [pc |-> "fetching", origin |-> a, destination |-> b,
                      elements |-> <<>>, outcome |-> "", seen |-> <<>>,
                      geometry |-> <<>>]]
    /\ UNCHANGED <<pc, inputVars, graphVars, coordPath, validatedPath, geometry,
                   stages, turnVars, routeVars, greedyVars, journeyVars, storeVars,
                   railVars, pageVars>>

\* part_000:82-94: the response arrives and is OK; response.json() is awaited
CallerResponse(c) ==
    /\ calls[c].pc = "fetching"
    /\ calls' = [calls EXCEPT ![c].pc = "parsing"]
    /\ UNCHANGED <<pc, inputVars, graphVars, coordPath, validatedPath, geometry,
                   stages, turnVars, routeVars, greedyVars, journeyVars, storeVars,
                   railVars, pageVars>>

\* part_000:106-110 after the fetch rejected, the response was not OK (pc
\* "fetching") or response.json() rejected (pc "parsing")
CallerCaught(c) ==
    /\ calls[c].pc \in {"fetching", "parsing"}
    /\ calls' = [calls EXCEPT
                    ![c].pc = "returned",
                    ![c].outcome = IF calls[c].pc = "fetching" THEN "rejected"
                                   ELSE "badBody",
                    ![c].geometry =
                        CatchFallback(calls[c].origin, calls[c].destination).value]
    /\ UNCHANGED <<pc, inputVars, graphVars, coordPath, validatedPath, geometry,
                   stages, turnVars, routeVars, greedyVars, journeyVars, storeVars,
                   railVars, pageVars>>

\* part_000:94-105: the body is parsed, the path computed, cached and saved
CallerParsed(c) ==
    /\ calls[c].pc = "parsing"
    /\ \E elements \in CallElements :
          calls' = [calls EXCEPT
                       ![c].pc = "returned",
                       ![c].elements = elements,
                       ![c].outcome = "ok",
                       ![c].geometry =
                           findBestPath(elements, calls[c].origin, calls[c].destination)]
    /\ LET g == calls'[c].geometry
           key == CacheKey(calls[c].origin, calls[c].destination)
       IN  /\ geometryCache' =
                 IF Len(g) > 0 THEN [geometryCache EXCEPT ![key] = <<g>>]
                 ELSE geometryCache
           /\ localStorage' =
                 IF Len(g) > 0 THEN saveCache(geometryCache', now) ELSE localStorage
           /\ writtenAt' =
                 IF Len(g) > 0 THEN [writtenAt EXCEPT ![key] = <<now>>] ELSE writtenAt
    /\ UNCHANGED <<pc, inputVars, graphVars, coordPath, validatedPath, geometry,
                   stages, turnVars, outcome, threw, greedyVars, journeyVars, now,
                   railVars, pageVars>>

\* the caller has the result; it can call again
CallerDone(c) ==
    /\ calls[c].pc = "returned"
    /\ calls' = [calls EXCEPT ![c] = IdleCall]
    /\ UNCHANGED <<pc, inputVars, graphVars, coordPath, validatedPath, geometry,
                   stages, turnVars, routeVars, greedyVars, journeyVars, storeVars,
                   railVars, pageVars>>

NextConcurrent ==
    \E c \in Callers :
        \/ CallerBegin(c)
        \/ CallerResponse(c)
        \/ CallerCaught(c)
        \/ CallerParsed(c)
        \/ CallerDone(c)

SpecConcurrent == InitConcurrent /\ [][NextConcurrent]_vars

(***************************************************************************)
(* Properties of concurrent getRouteGeometry calls (SpecConcurrent)        *)
(***************************************************************************)
\* what the call returns when no other call runs beside it
AloneResult(call) ==
    CASE call.outcome = "cached" -> call.seen[1]
      [] call.outcome = "ok" -> findBestPath(call.elements, call.origin, call.destination)
      [] OTHER -> <<<<call.origin.lat, call.origin.lng>>,
                    <<call.destination.lat, call.destination.lng>>>>

\* C24: under every interleaving of calls for different pairs each call
\* returns what it returns alone: the path findBestPath gives for its own
\* response and its own pair, the straight line of its own pair after a
\* failure, or on a hit the array cached for its own pair, which is a path
\* computed for that pair.
C24_SameAsAlone ==
    \A c \in Callers :
        calls[c].pc = "returned" =>
            /\ calls[c].geometry = AloneResult(calls[c])
            /\ calls[c].outcome = "cached" =>
                  \E e \in CallElements :
                      calls[c].geometry =
                          findBestPath(e, calls[c].origin, calls[c].destination)

\* one call returned a path along the way of its response while another
\* call, begun before that return, is still awaiting its own response
C24_Witness ==
    \E c \in Callers, o \in Callers :
        /\ calls[c].pc = "returned"
        /\ calls[c].outcome = "ok"
        /\ Len(calls[c].geometry) > 2
        /\ calls[o].pc \in {"fetching", "parsing"}
        /\ calls[o].origin = calls[c].destination


(***************************************************************************)
(* RailGraph (js/routing/railGraph.js) and the script that builds its      *)
(* data (app.js:885-905).  An adjacency object is the sequence of its keys *)
(* in insertion order, each with its links [to, weight] in insertion       *)
(* order; the variable stationGraph is <<>> for null, else <<adjacency>>.  *)
(* null for a station code is "".                                          *)
(***************************************************************************)
MAJOR_HUBS ==
    {"YRK", "BHM", "LDS", "MAN", "PRE", "SHF", "CRE", "EDB", "NCL", "LIV",
     "BRI", "RDG", "CBG", "GLC", "EUS", "KGX", "STP", "PAD", "VIC", "LST",
     "WAT", "WIJ", "CLJ", "DON", "PBO", "LEI", "NOT", "BNS"}

\* graph[code] is defined
HasKey(g, code) == \E i \in 1..Len(g) : g[i].code = code

RailKeys(g) == {g[i].code : i \in 1..Len(g)}

\* graph[origin][dest] = distance (app.js:897): a destination already
\* there keeps its place
SetLink(links, dest, miles) ==
    IF \E j \in 1..Len(links) : links[j].to = dest
    THEN [j \in 1..Len(links) |->
            IF links[j].to = dest THEN [to |-> dest, weight |-> miles]
            ELSE links[j]]
    ELSE Append(links, [to |-> dest, weight |-> miles])

\* one line of the routing file (app.js:889-898)
AddLine(g, line) ==
    LET g1 == IF HasKey(g, line.origin) THEN g
              ELSE Append(g, [code |-> line.origin, links |-> <<>>])
    IN  [i \in 1..Len(g1) |->
            IF g1[i].code = line.origin
            THEN [code |-> g1[i].code,
                  links |-> SetLink(g1[i].links, line.dest, line.distance)]
            ELSE g1[i]]

RECURSIVE BuildLines(_, _, _)
BuildLines(lines, g, i) ==
    IF i > Len(lines) THEN g ELSE BuildLines(lines, AddLine(g, lines[i]), i + 1)

\* app.js:880-905
BuildStationGraph(lines) == BuildLines(lines, <<>>, 1)

\* the links stored under other keys that lead to the station, turned round
RECURSIVE BackLinks(_, _, _)
BackLinks(g, code, i) ==
    IF i > Len(g) THEN <<>>
    ELSE (IF \E j \in 1..Len(g[i].links) : g[i].links[j].to = code
          THEN <<[to |-> g[i].code,
                  weight |-> g[i].links[CHOOSE j \in 1..Len(g[i].links) :
                                            g[i].links[j].to = code].weight]>>
          ELSE <<>>)
         \o BackLinks(g, code, i + 1)

\* the links of a station and, as if stored in both directions, the links
\* that lead to it
LinksOf_Symmetric(g, code) ==
    (IF HasKey(g, code)
     THEN g[CHOOSE i \in 1..Len(g) : g[i].code = code].links ELSE <<>>)
    \o BackLinks(g, code, 1)

\* graph[current] (railGraph.js:68), <<>> when undefined
LinksOf(g, code) ==
    IF HasKey(g, code) THEN g[CHOOSE i \in 1..Len(g) : g[i].code = code].links ELSE <<>>

\* PriorityQueue.enqueue (railGraph.js:117-128): before the first item of
\* greater priority, else at the end
RECURSIVE EnqueueFrom(_, _, _)
EnqueueFrom(items, queueElement, i) ==
    IF i > Len(items) THEN Append(items, queueElement)
    ELSE IF queueElement.priority < items[i].priority
         THEN SubSeq(items, 1, i - 1) \o <<queueElement>> \o SubSeq(items, i, Len(items))
         ELSE EnqueueFrom(items, queueElement, i + 1)

\* a queue that takes every item at its end
Enqueue_AtEnd(items, element, priority) ==
    Append(items, [element |-> element, priority |-> priority])

Enqueue(items, element, priority) ==
    EnqueueFrom(items, [element |-> element, priority |-> priority], 1)

\* railGraph.js:71-80: distances[neighbor] is undefined for a neighbor that
\* is no key, and the comparison with it is false
RECURSIVE RailRelax(_, _, _, _)
RailRelax(st, current, links, j) ==
    IF j > Len(links) THEN st
    ELSE LET neighbor == links[j].to
             alt == st.distances[current] + links[j].weight
         IN  IF neighbor \in DOMAIN st.distances /\ alt < st.distances[neighbor]
             THEN RailRelax([distances |-> [st.distances EXCEPT ![neighbor] = alt],
                             previous |-> [st.previous EXCEPT ![neighbor] = current],
                             queue |-> Enqueue(st.queue, neighbor, alt)],
                            current, links, j + 1)
             ELSE RailRelax(st, current, links, j + 1)

\* railGraph.js:58-64
RECURSIVE RailReconstruct(_, _, _)
RailReconstruct(previous, u, path) ==
    IF u = "" THEN path ELSE RailReconstruct(previous, previous[u], <<u>> \o path)

\* railGraph.js:53-83
RECURSIVE RailLoop(_, _, _)
RailLoop(g, end, st) ==
    IF Len(st.queue) = 0 THEN [path |-> <<>>, search |-> st]
    ELSE LET current == Head(st.queue).element
             st1 == [st EXCEPT !.queue = Tail(st.queue)]
         IN  IF current = end
             THEN [path |-> RailReconstruct(st1.previous, end, <<>>), search |-> st1]
             ELSE RailLoop(g, end, RailRelax(st1, current, LinksOf(g, current), 1))

\* a guard that looks at the start code only
RailGuard_StartOnly(graph0, start, end) ==
    graph0 = <<>> \/ ~HasKey(graph0[1], start)

\* railGraph.js:38
RailGuard(graph0, start, end) ==
    graph0 = <<>> \/ ~HasKey(graph0[1], start) \/ ~HasKey(graph0[1], end)

\* findPath (railGraph.js:37-84): the value returned and the maps and the
\* queue as they are at the return
findPath(graph0, start, end) ==
    IF RailGuard(graph0, start, end) THEN [path |-> <<>>, search |-> NoRailSearch]
    ELSE LET g == graph0[1]
         IN  RailLoop(g, end,
                      [distances |-> [c \in RailKeys(g) |-> IF c = start THEN 0 ELSE Infinity],
                       previous |-> [c \in RailKeys(g) |-> ""],
                       queue |-> Enqueue(<<>>, start, 0)])

\* [...new Set(interchanges)]
RECURSIVE Unique(_, _)
Unique(seq, i) ==
    IF i > Len(seq) THEN <<>>
    ELSE (IF \E j \in 1..(i - 1) : seq[j] = seq[i] THEN <<>> ELSE <<seq[i]>>)
         \o Unique(seq, i + 1)

\* the filter keeping the start and the end code
HubFilter_KeepEnds(path, start, end) ==
    Unique(SelectSeq(path, LAMBDA station : station \in MAJOR_HUBS), 1)

\* railGraph.js:94-108
HubFilter(path, start, end) ==
    Unique(SelectSeq(path, LAMBDA station :
                                /\ station # start
                                /\ station # end
                                /\ station \in MAJOR_HUBS), 1)

\* findInterchanges (railGraph.js:90-109)
findInterchanges(graph0, start, end) ==
    LET path == findPath(graph0, start, end).path
    IN  IF path = <<>> THEN <<>> ELSE HubFilter(path, start, end)


(***************************************************************************)
(* RailGraph: init, findPath and findInterchanges called from the page.    *)
(* The routing file holds any choice of the lines below, in this order or  *)
(* in the reverse order; SEL is no major hub.  findPath and                *)
(* findInterchanges run without interruption; the steps of init are taken  *)
(* while no result of a query is being looked at.                          *)
(***************************************************************************)
RailLines ==
    << [origin |-> "YRK", dest |-> "SEL", distance |-> 1],
       [origin |-> "SEL", dest |-> "LDS", distance |-> 1],
       [origin |-> "YRK", dest |-> "LDS", distance |-> 3],
       [origin |-> "LDS", dest |-> "MAN", distance |-> 2],
       [origin |-> "YRK", dest |-> "MAN", distance |-> 4],
       [origin |-> "MAN", dest |-> "LDS", distance |-> 2],
       [origin |-> "LDS", dest |-> "SEL", distance |-> 0],
       [origin |-> "YRK", dest |-> "LDS", distance |-> 1],
       [origin |-> "SEL", dest |-> "YRK", distance |-> 1] >>

RailCodes == {"YRK", "SEL", "LDS", "MAN"}

RECURSIVE PickLines(_, _)
PickLines(S, i) ==
    IF i > Len(RailLines) THEN <<>>
    ELSE (IF i \in S THEN <<RailLines[i]>> ELSE <<>>) \o PickLines(S, i + 1)

RailFiles ==
    UNION {{PickLines(S, 1), Reverse(PickLines(S, 1))} : S \in SUBSET (1..Len(RailLines))}

\* what stationGraph.json can hold
StationGraphs == {BuildStationGraph(f) : f \in RailFiles}

Loaders == 1..MaxLoaders

\* railGraph.js:7-8
InitRail ==
    /\ pc = "page"
    /\ ways = <<>>
    /\ origin = <<>>
    /\ destination = <<>>
    /\ NoGraph
    /\ coordPath = <<>>
    /\ validatedPath = <<>>
    /\ geometry = <<>>
    /\ stages = <<>>
    /\ NoTurn
    /\ NoRoute
    /\ NoGreedy
    /\ NoJourney
    /\ NoStore
    /\ NoCalls
    /\ stationGraph = <<>>
    /\ stationsLoaded = FALSE
    /\ inits = [c \in Loaders |-> "idle"]
    /\ fetchCount = 0
    /\ assignCount = 0
    /\ startCode = ""
    /\ endCode = ""
    /\ railSearch = NoRailSearch
    /\ railPath = <<>>
    /\ interchanges = <<>>
    /\ NoPage

\* railGraph.js:17-21: init returns at once when graph is set, else it
\* sends the request
RailInitCall(c) ==
    /\ pc = "page"
    /\ inits[c] \notin {"fetching", "parsing"}
    /\ IF stationGraph # <<>>
       THEN /\ inits' = [inits EXCEPT ![c] = "skipped"]
            /\ UNCHANGED fetchCount
       ELSE /\ fetchCount < MaxFetches
            /\ inits' = [inits EXCEPT ![c] = "fetching"]
            /\ fetchCount' = fetchCount + 1
    /\ UNCHANGED <<pc, inputVars, graphVars, coordPath, validatedPath, geometry,
                   stages, turnVars, routeVars, greedyVars, journeyVars, storeVars,
                   callVars, stationGraph, stationsLoaded, assignCount, startCode,
                   endCode, railSearch, railPath, interchanges, pageVars>>

\* railGraph.js:21-23: the response arrives and is OK; response.json() is
\* awaited
RailInitResponse(c) ==
    /\ pc = "page"
    /\ inits[c] = "fetching"
    /\ inits' = [inits EXCEPT ![c] = "parsing"]
    /\ UNCHANGED <<pc, inputVars, graphVars, coordPath, validatedPath, geometry,
                   stages, turnVars, routeVars, greedyVars, journeyVars, storeVars,
                   callVars, stationGraph, stationsLoaded, fetchCount, assignCount,
                   startCode, endCode, railSearch, railPath, interchanges, pageVars>>

\* railGraph.js:23-25: the body is parsed and assigned
RailInitParsed(c) ==
    /\ pc = "page"
    /\ inits[c] = "parsing"
    /\ \E g \in StationGraphs : stationGraph' = <<g>>
    /\ stationsLoaded' = TRUE
    /\ assignCount' = assignCount + 1
    /\ inits' = [inits EXCEPT ![c] = "loaded"]
    /\ UNCHANGED <<pc, inputVars, graphVars, coordPath, validatedPath, geometry,
                   stages, turnVars, routeVars, greedyVars, journeyVars, storeVars,
                   callVars, fetchCount, startCode, endCode, railSearch, railPath,
                   interchanges, pageVars>>

\* railGraph.js:26-28: the fetch rejected, the response was not OK or
\* response.json() rejected
RailInitFailed(c) ==
    /\ pc = "page"
    /\ inits[c] \in {"fetching", "parsing"}
    /\ inits' = [inits EXCEPT ![c] = "failed"]
    /\ UNCHANGED <<pc, inputVars, graphVars, coordPath, validatedPath, geometry,
                   stages, turnVars, routeVars, greedyVars, journeyVars, storeVars,
                   callVars, stationGraph, stationsLoaded, fetchCount, assignCount,
                   startCode, endCode, railSearch, railPath, interchanges, pageVars>>

\* a call of findPath
FindPathCall ==
    /\ pc = "page"
    /\ \E s \in RailCodes, e \in RailCodes :
          /\ startCode' = s
          /\ endCode' = e
          /\ railPath' = findPath(stationGraph, s, e).path
          /\ railSearch' = findPath(stationGraph, s, e).search
    /\ interchanges' = <<>>
    /\ pc' = "findPath"
    /\ UNCHANGED <<inputVars, graphVars, coordPath, validatedPath, geometry,
                   stages, turnVars, routeVars, greedyVars, journeyVars, storeVars,
                   callVars, stationGraph, stationsLoaded, inits, fetchCount,
                   assignCount, pageVars>>

\* a call of findInterchanges; railPath and railSearch are those of the
\* findPath call it makes
FindInterchangesCall ==
    /\ pc = "page"
    /\ \E s \in RailCodes, e \in RailCodes :
          /\ startCode' = s
          /\ endCode' = e
          /\ railPath' = findPath(stationGraph, s, e).path
          /\ railSearch' = findPath(stationGraph, s, e).search
          /\ interchanges' = findInterchanges(stationGraph, s, e)
    /\ pc' = "findInterchanges"
    /\ UNCHANGED <<inputVars, graphVars, coordPath, validatedPath, geometry,
                   stages, turnVars, routeVars, greedyVars, journeyVars, storeVars,
                   callVars, stationGraph, stationsLoaded, inits, fetchCount,
                   assignCount, pageVars>>

\* the caller has the result
QueryDone ==
    /\ pc \in {"findPath", "findInterchanges"}
    /\ pc' = "page"
    /\ startCode' = ""
    /\ endCode' = ""
    /\ railSearch' = NoRailSearch
    /\ railPath' = <<>>
    /\ interchanges' = <<>>
    /\ UNCHANGED <<inputVars, graphVars, coordPath, validatedPath, geometry,
                   stages, turnVars, routeVars, greedyVars, journeyVars, storeVars,
                   callVars, stationGraph, stationsLoaded, inits, fetchCount,
                   assignCount, pageVars>>

\* one caller of init, and the queries
NextRail ==
    \/ RailInitCall(1)
    \/ RailInitResponse(1)
    \/ RailInitParsed(1)
    \/ RailInitFailed(1)
    \/ FindPathCall
    \/ FindInterchangesCall
    \/ QueryDone

SpecRail == InitRail /\ [][NextRail]_vars

\* init called by several callers, their calls overlapping
NextRailInit ==
    \E c \in Loaders :
        \/ RailInitCall(c)
        \/ RailInitResponse(c)
        \/ RailInitParsed(c)
        \/ RailInitFailed(c)

SpecRailInit == InitRail /\ [][NextRailInit]_vars


(***************************************************************************)
(* Properties of RailGraph (SpecRail, SpecRailInit)                        *)
(***************************************************************************)
\* every stored link: B under key A with its weight
RailEdges(g) ==
    UNION {{[from |-> g[i].code, to |-> g[i].links[j].to, weight |-> g[i].links[j].weight] :
               j \in 1..Len(g[i].links)} : i \in 1..Len(g)}

RailNodes(g) == RailKeys(g) \cup {e.to : e \in RailEdges(g)}

\* the least weight of a directed path of at most k links from s to each
\* station, Infinity where there is none
RECURSIVE RailLeast(_, _, _)
RailLeast(g, s, k) ==
    IF k = 0 THEN [v \in RailNodes(g) |-> IF v = s THEN 0 ELSE Infinity]
    ELSE LET d == RailLeast(g, s, k - 1)
         IN  [v \in RailNodes(g) |->
                SetMin({d[v]} \cup {d[e.from] + e.weight :
                                      e \in {x \in RailEdges(g) :
                                                x.to = v /\ d[x.from] < Infinity}})]

\* the least weight of a directed path from s to e, Infinity without one
LeastBetween(g, s, e) ==
    IF s \in RailNodes(g) /\ e \in RailNodes(g)
    THEN RailLeast(g, s, Cardinality(RailNodes(g)))[e]
    ELSE Infinity

StoredLink(g, a, b) == \E e \in RailEdges(g) : e.from = a /\ e.to = b

RECURSIVE RailPathWeight(_, _, _)
RailPathWeight(g, path, i) ==
    IF i >= Len(path) THEN 0
    ELSE (CHOOSE e \in RailEdges(g) : e.from = path[i] /\ e.to = path[i + 1]).weight
         + RailPathWeight(g, path, i + 1)

Queried == pc \in {"findPath", "findInterchanges"}

\* C26: for start and end both keys of the loaded map findPath returns a
\* list that begins with start, ends with end, follows stored links and has
\* the least total weight of all directed paths from start to end; it
\* returns null exactly when there is no directed path.
C26_ShortestStationPath ==
    (/\ Queried
     /\ stationGraph # <<>>
     /\ HasKey(stationGraph[1], startCode)
     /\ HasKey(stationGraph[1], endCode)) =>
        LET g == stationGraph[1]
            least == LeastBetween(g, startCode, endCode)
        IN  IF least = Infinity THEN railPath = <<>>
            ELSE /\ railPath # <<>>
                 /\ railPath[1] = startCode
                 /\ railPath[Len(railPath)] = endCode
                 /\ \A k \in 1..(Len(railPath) - 1) :
                       StoredLink(g, railPath[k], railPath[k + 1])
                 /\ RailPathWeight(g, railPath, 1) = least

\* the path returned goes over another station although a direct link
\* from start to end is stored
C26_Witness ==
    /\ Queried
    /\ Len(railPath) = 3
    /\ StoredLink(stationGraph[1], startCode, endCode)

\* C27: findPath returns null without searching (no map of distances, no
\* queue) when the start code or the end code is no key of the map, and
\* when the graph is not loaded.
C27_NullWithoutSearch ==
    (/\ Queried
     /\ \/ stationGraph = <<>>
        \/ ~HasKey(stationGraph[1], startCode)
        \/ ~HasKey(stationGraph[1], endCode)) =>
        /\ railPath = <<>>
        /\ railSearch = NoRailSearch

\* the graph is loaded, the start is a key and links lead to the end, which
\* is no key
C27_Witness ==
    /\ Queried
    /\ stationGraph # <<>>
    /\ HasKey(stationGraph[1], startCode)
    /\ ~HasKey(stationGraph[1], endCode)
    /\ LeastBetween(stationGraph[1], startCode, endCode) < Infinity
    /\ railPath = <<>>

\* C28: a path returned steps from A to B only over a link B stored under
\* key A, and a station that links lead from but not to is reported
\* unreachable.
C28_NeverSymmetrized ==
    (Queried /\ stationGraph # <<>>) =>
        LET g == stationGraph[1]
        IN  /\ \A k \in 1..(Len(railPath) - 1) :
                  StoredLink(g, railPath[k], railPath[k + 1])
            /\ \/ railPath = <<>>
               \/ ~(/\ LeastBetween(g, startCode, endCode) = Infinity
                     /\ LeastBetween(g, endCode, startCode) < Infinity)

\* start and end are keys, links lead from the end to the start but not
\* from the start to the end
C28_Witness ==
    /\ Queried
    /\ stationGraph # <<>>
    /\ HasKey(stationGraph[1], startCode)
    /\ HasKey(stationGraph[1], endCode)
    /\ LeastBetween(stationGraph[1], endCode, startCode) < Infinity
    /\ LeastBetween(stationGraph[1], startCode, endCode) = Infinity
    /\ railPath = <<>>

\* C29: findInterchanges returns the major hubs on the path findPath
\* returns, without start and end, each once and in the order of the path;
\* the empty list when findPath returns null.
C29_HubsOnPath ==
    pc = "findInterchanges" =>
        IF railPath = <<>> THEN interchanges = <<>>
        ELSE /\ {interchanges[k] : k \in 1..Len(interchanges)} =
                   ({railPath[k] : k \in 1..Len(railPath)} \cap MAJOR_HUBS)
                       \ {startCode, endCode}
             /\ \A a \in 1..Len(interchanges), b \in 1..Len(interchanges) :
                   a < b =>
                      /\ interchanges[a] # interchanges[b]
                      /\ \E x \in 1..Len(railPath), y \in 1..Len(railPath) :
                            /\ x < y
                            /\ railPath[x] = interchanges[a]
                            /\ railPath[y] = interchanges[b]

\* a path over a station that is no major hub and one that is, between a
\* start and an end that are major hubs
C29_Witness ==
    /\ pc = "findInterchanges"
    /\ Len(railPath) = 4
    /\ Len(interchanges) = 1
    /\ startCode \in MAJOR_HUBS
    /\ endCode \in MAJOR_HUBS

\* C30: over any calls of init, overlapping or not, the graph is assigned at
\* most once, and no call made once the graph is set sends a request.
C30_LoadedOnce ==
    [][/\ assignCount' <= 1
       /\ stationGraph # <<>> => fetchCount' = fetchCount]_vars

(***************************************************************************)
(* findBestPath on segments near the edge of the corridor: the stations    *)
(* lie at longitude 0.0005, so the corridor of margin 0.1 ends at          *)
(* longitude 0.1005; (0.015, 0.1005) lies inside it, (0.015, 0.101) and    *)
(* (0.03, 0.101) lie outside it, and the first two round to one node key.  *)
(***************************************************************************)
CorridorPoints == {<<-150, 0>>, <<30, 201>>, <<30, 202>>, <<60, 202>>}

InitCorridor ==
    /\ pc = "findBestPath"
    /\ ways \in {[i \in 1..Len(g) |-> [id |-> i, geometry |-> g[i]]] :
                   g \in UNION {[1..n -> UNION {[1..m -> CorridorPoints] :
                                                   m \in 0..MaxJoinCoords}] :
                                   n \in 0..MaxWays}}
    /\ origin \in Stations
    /\ destination \in Stations
    /\ NoGraph
    /\ coordPath = <<>>
    /\ validatedPath = <<>>
    /\ geometry = <<>>
    /\ stages = <<>>
    /\ NoTurn
    /\ NoRoute
    /\ NoGreedy
    /\ NoJourney
    /\ NoStore
    /\ NoCalls
    /\ NoRail
    /\ NoPage

SpecCorridor == InitCorridor /\ [][Next]_vars

\* the segment has a coordinate inside the corridor around the two stations
InsideCorridor(seg) ==
    \E i \in 1..Len(seg.coords) :
        isInCorridor(seg.coords[i], PointOf(origin), PointOf(destination), GreedyMargin)

\* C31: the graph searched holds edges only of segments with a coordinate
\* inside the corridor around origin and destination, and every edge that
\* the node path found by dijkstra runs over belongs to such a segment.
C31_GraphFromCorridorOnly ==
    /\ \A s \in EdgeSlots(graph) :
           \A k \in 1..Len(SegmentsOf(ways)) :
               SegmentsOf(ways)[k].id = graph[s[1]].edges[s[2]].segmentId
                   => InsideCorridor(SegmentsOf(ways)[k])
    /\ \A i \in 2..Len(nodePath) :
           InsideCorridor(search.previous[nodePath[i]][1].edge)

(***************************************************************************)
(* What a failed and what an empty response leave in the cache (SpecStore) *)
(***************************************************************************)
FetchFailures == {"rejected", "notOk", "badBody"}

UK_STATIONS ==
    <<[code |-> "SCA", lat |-> 108560, lng |-> -810],
      [code |-> "YRK", lat |-> 107916, lng |-> -2186],
      [code |-> "LDS", lat |-> 107590, lng |-> -3096],
      [code |-> "MAN", lat |-> 106954, lng |-> -4460],
      [code |-> "LIV", lat |-> 106814, lng |-> -5956],
      [code |-> "KGX", lat |-> 103062, lng |-> -248],
      [code |-> "EUS", lat |-> 103056, lng |-> -267]>>

\* StationData.getByCode (stations.js:267-269): <<>> for undefined
getStationByCode(code) ==
    LET found == SelectSeq(UK_STATIONS, LAMBDA s : s.code = code)
    IN  IF Len(found) = 0 THEN <<>> ELSE <<found[1]>>

\* parseTimeToMinutes, trainApi.js:1514-1517
parseTimeToMinutes(timeStr) == timeStr[1] * 60 + timeStr[2]

\* formatTimeFromMinutes, trainApi.js:800-804
formatTimeFromMinutes(totalMins) == <<(totalMins \div 60) % 24, totalMins % 60>>

\* findArrivalTimeAtHub on the details of a service, trainApi.js:1126-1138
findArrivalTimeAtHub(service, hubCode) ==
    IF hubCode \in DOMAIN service.calls THEN service.calls[hubCode] ELSE <<>>

\* findArrivalTime, trainApi.js:524-540
findArrivalTime(service, destinationCode, date) ==
    IF findArrivalTimeAtHub(service, destinationCode) = <<>> THEN <<>>
    ELSE <<[date |-> date, time |-> findArrivalTimeAtHub(service, destinationCode)[1]]>>

\* the loop of fetchLeg over data.trainServices, trainApi.js:758-789
RECURSIVE LegsOf(_, _, _, _, _, _)
LegsOf(services, fromStation, toStation, toCode, date, i) ==
    IF i > Len(services) THEN <<>>
    ELSE LET service == services[i]
             accurateArrTime == findArrivalTimeAtHub(service, toCode)
             rest == LegsOf(services, fromStation, toStation, toCode, date, i + 1)
         IN  IF accurateArrTime = <<>> THEN rest
             ELSE <<[id |-> service.serviceIdUrlSafe,
                     departureTime |-> [date |-> date, time |-> service.std],
                     arrivalTime |-> [date |-> date, time |-> accurateArrTime[1]],
                     origin |-> fromStation,
                     destination |-> toStation]>> \o rest

\* fetchLeg, trainApi.js:722-797.  The time asked for goes into the
\* request only; departures is what the service answers for each pair.
fetchLeg(departures, fromCode, toCode, date, time) ==
    LET resp == departures[<<fromCode, toCode>>]
        fromStation == IF getStationByCode(fromCode) # <<>> THEN getStationByCode(fromCode)[1]
                       ELSE [code |-> fromCode, name |-> fromCode]
        toStation == IF getStationByCode(toCode) # <<>> THEN getStationByCode(toCode)[1]
                     ELSE [code |-> toCode, name |-> toCode]
    IN  IF ~resp.ok THEN <<>>
        ELSE LegsOf(resp.trainServices, fromStation, toStation, toCode, date, 1)

\* totalDuration > 0 ? totalDuration : totalDuration + 1440
DurationOf(totalDuration) == IF totalDuration > 0 THEN totalDuration ELSE totalDuration + 1440

\* the loop over legs3, trainApi.js:690-706
RECURSIVE Leg3Loop(_, _, _, _, _, _)
Leg3Loop(leg1, leg2, legs3, minDepTime3, k, validJourneys) ==
    IF k > Len(legs3) THEN validJourneys
    ELSE LET leg3 == legs3[k]
             leg3DepTime == parseTimeToMinutes(leg3.departureTime.time)
             leg3ArrTime == parseTimeToMinutes(leg3.arrivalTime.time)
             totalDuration == leg3ArrTime - parseTimeToMinutes(leg1.departureTime.time)
         IN  Leg3Loop(leg1, leg2, legs3, minDepTime3, k + 1,
                 IF leg3DepTime < minDepTime3 \/ leg3DepTime > minDepTime3 + 120
                 THEN validJourneys
                 ELSE Append(validJourneys,
                             [id |-> <<"seq", leg1.id, leg2.id, leg3.id>>,
                              departureTime |-> leg1.departureTime,
                              arrivalTime |-> leg3.arrivalTime,
                              duration |-> DurationOf(totalDuration),
                              changes |-> 2,
                              legs |-> <<leg1, leg2, leg3>>]))

\* the loop over legs2, trainApi.js:662-708
RECURSIVE Leg2Loop(_, _, _, _, _, _, _, _)
Leg2Loop(departures, to, hubSeq, leg1, legs2, minDepTime, j, validJourneys) ==
    IF j > Len(legs2) THEN validJourneys
    ELSE LET leg2 == legs2[j]
             leg2DepTime == parseTimeToMinutes(leg2.departureTime.time)
             leg2ArrTime == parseTimeToMinutes(leg2.arrivalTime.time)
             totalDuration == leg2ArrTime - parseTimeToMinutes(leg1.departureTime.time)
             minDepTime3 == leg2ArrTime + 7
             legs3 == fetchLeg(departures, hubSeq[2], to.code,
                               leg2.arrivalTime.date, formatTimeFromMinutes(minDepTime3))
         IN  Leg2Loop(departures, to, hubSeq, leg1, legs2, minDepTime, j + 1,
                 IF leg2DepTime < minDepTime \/ leg2DepTime > minDepTime + 120
                 THEN validJourneys
                 ELSE IF Len(hubSeq) = 1
                 THEN Append(validJourneys,
                             [id |-> <<"seq", leg1.id, leg2.id>>,
                              departureTime |-> leg1.departureTime,
                              arrivalTime |-> leg2.arrivalTime,
                              duration |-> DurationOf(totalDuration),
                              changes |-> 1,
                              legs |-> <<leg1, leg2>>])
                 ELSE IF Len(hubSeq) = 2
                 THEN Leg3Loop(leg1, leg2, legs3, minDepTime3, 1, validJourneys)
                 ELSE validJourneys)

\* the loop over legs1.slice(0, 3), trainApi.js:651-709
RECURSIVE Leg1Loop(_, _, _, _, _, _)
Leg1Loop(departures, to, hubSeq, legs1, i, validJourneys) ==
    IF i > Len(legs1) THEN validJourneys
    ELSE LET leg1 == legs1[i]
             leg1ArrTime == parseTimeToMinutes(leg1.arrivalTime.time)
             leg1ArrDate == leg1.arrivalTime.date
             nextDestCode == IF Len(hubSeq) > 1 THEN hubSeq[2] ELSE to.code
             minDepTime == leg1ArrTime + 7
             nextDepStr == formatTimeFromMinutes(minDepTime)
             legs2 == fetchLeg(departures, hubSeq[1], nextDestCode, leg1ArrDate, nextDepStr)
         IN  Leg1Loop(departures, to, hubSeq, legs1, i + 1,
                      Leg2Loop(departures, to, hubSeq, leg1, legs2, minDepTime,
                               1, validJourneys))

\* searchMultiLegSequence, trainApi.js:640-717
searchMultiLegSequence(departures, from, to, hubSeq, date, time) ==
    LET legs1 == fetchLeg(departures, from.code, hubSeq[1], date, time)
    IN  IF Len(legs1) = 0 THEN <<>>
        ELSE Leg1Loop(departures, to, hubSeq, SubSeq(legs1, 1, Min2(3, Len(legs1))),
                      1, <<>>)

(***************************************************************************)
(* searchMultiLegSequence from Scarborough to Liverpool over one, two or   *)
(* three hubs.  The services a, d, b, c, e, f leave at 10:00, 10:36, 10:37,  *)
(* 12:37, 12:38 and 13:30 and take 30 minutes, so that after the 10:00 the *)
(* next leg is 6, 7, 127 or 128 minutes away; the 12:38 has no calling     *)
(* point at the station asked for.  What the service answers for a pair is taken to be the      *)
(* same whatever time is asked for.                                        *)
(***************************************************************************)
SearchDate == "2026-03-01"
SearchTime == <<9, 30>>

\* a service to the station asked for, by its name in the text above
ServiceTo(id, to) ==
    LET std == CASE id = "a" -> <<10, 0>> [] id = "b" -> <<10, 37>> [] id = "c" -> <<12, 37>>
                 [] id = "d" -> <<10, 36>> [] id = "f" -> <<13, 30>> [] OTHER -> <<12, 38>>
        sta == CASE id = "a" -> <<<<10, 30>>>> [] id = "b" -> <<<<11, 7>>>>
                 [] id = "c" -> <<<<13, 7>>>> [] id = "d" -> <<<<11, 6>>>>
                 [] id = "f" -> <<<<14, 0>>>> [] OTHER -> <<>>
    IN  [serviceIdUrlSafe |-> id, std |-> std, calls |-> [c \in {to} |-> sta]]

\* the answers to one request: the services listed, or a failed request
Answers == {<<"failed">>, <<>>, <<"a">>, <<"b">>, <<"c">>, <<"f">>, <<"d", "e", "b">>,
            <<"a", "b", "c", "d">>}

ResponseTo(answer, to) ==
    IF answer = <<"failed">> THEN [ok |-> FALSE, trainServices |-> <<>>]
    ELSE [ok |-> TRUE, trainServices |-> [i \in 1..Len(answer) |-> ServiceTo(answer[i], to)]]

HubSequences == {<<"YRK">>, <<"YRK", "LDS">>, <<"YRK", "LDS", "MAN">>}

\* the station pairs that follow one another along origin, hubs, destination
PairsAlong(from, hubSeq, to) ==
    LET stops == <<from.code>> \o hubSeq \o <<to.code>>
    IN  {<<stops[i], stops[i + 1]>> : i \in 1..(Len(stops) - 1)}

InitSequence ==
    /\ pc = "idle"
    /\ ways = <<>>
    /\ origin = UK_STATIONS[1]
    /\ destination = UK_STATIONS[5]
    /\ NoGraph
    /\ coordPath = <<>>
    /\ validatedPath = <<>>
    /\ geometry = <<>>
    /\ stages = <<>>
    /\ NoTurn
    /\ NoRoute
    /\ NoGreedy
    /\ NoJourney
    /\ NoStore
    /\ NoCalls
    /\ NoRail
    /\ hubs \in HubSequences
    /\ \E answers \in [PairsAlong(origin, hubs, destination) -> Answers] :
          board = [p \in PairsAlong(origin, hubs, destination) |->
                      ResponseTo(answers[p], p[2])]
    /\ journeys = <<>>
    /\ NoApi
    /\ NoMap
    /\ NoForm

\* a search for the sequence of hubs
SequenceSearch ==
    /\ pc = "idle"
    /\ journeys' = searchMultiLegSequence(board, origin, destination, hubs,
                                          SearchDate, SearchTime)
    /\ pc' = "returned"
    /\ UNCHANGED <<inputVars, graphVars, coordPath, validatedPath, geometry, stages,
                   turnVars, routeVars, greedyVars, journeyVars, storeVars, callVars,
                   mapVars, formVars, railVars, board, hubs, tapi, apiCall, warning, searchCache>>

SpecSequence == InitSequence /\ [][SequenceSearch]_vars

(***************************************************************************)
(* Properties of searchMultiLegSequence (SpecSequence)                     *)
(***************************************************************************)
\* minutes from the arrival of leg k to the departure of leg k + 1
ConnectionTime(journey, k) ==
    parseTimeToMinutes(journey.legs[k + 1].departureTime.time)
        - parseTimeToMinutes(journey.legs[k].arrivalTime.time)

\* C33: every journey searchMultiLegSequence returns has at each
\* interchange a connection time of at least 7 and at most 120 minutes.
C33_ConnectionWindow ==
    pc = "returned" =>
        \A n \in 1..Len(journeys) :
            \A k \in 1..(Len(journeys[n].legs) - 1) :
                /\ ConnectionTime(journeys[n], k) >= 7
                /\ ConnectionTime(journeys[n], k) <= 120

\* the answer for the pair lists, among its first `first` services with a
\* calling point at the station asked for, one that leaves 7 to 120
\* minutes after `arrival` (any, when arrival is <<>>)
ServiceInWindow(p, arrival, first) ==
    LET listed == fetchLeg(board, p[1], p[2], SearchDate, SearchTime)
    IN  {k \in 1..Min2(first, Len(listed)) :
            arrival = <<>>
            \/ /\ parseTimeToMinutes(listed[k].departureTime.time) >= arrival[1] + 7
               /\ parseTimeToMinutes(listed[k].departureTime.time) <= arrival[1] + 120}

\* some chain of services, one per consecutive pair from stops[n] on, each
\* leaving 7 to 120 minutes after the one before arrives
RECURSIVE ChainFrom(_, _, _)
ChainFrom(stops, n, arrival) ==
    IF n >= Len(stops) THEN TRUE
    ELSE \E k \in ServiceInWindow(<<stops[n], stops[n + 1]>>, arrival,
                                   IF n = 1 THEN 3 ELSE 4) :
             ChainFrom(stops, n + 1,
                 <<parseTimeToMinutes(
                     fetchLeg(board, stops[n], stops[n + 1], SearchDate,
                              SearchTime)[k].arrivalTime.time)>>)

\* C37: for a hub sequence of length 1 or more, when the service lists for
\* each consecutive pair origin-hub1, hub1-hub2, ..., last hub-destination
\* a service that leaves within the connection window after the one before
\* it, searchMultiLegSequence returns a journey that visits all the hubs
\* in order.
C37_SequenceFound ==
    (pc = "returned"
     /\ ChainFrom(<<origin.code>> \o hubs \o <<destination.code>>, 1, <<>>)) =>
        \E n \in 1..Len(journeys) :
            /\ Len(journeys[n].legs) = Len(hubs) + 1
            /\ \A k \in 1..Len(hubs) : journeys[n].legs[k].destination.code = hubs[k]

(***************************************************************************)
(* The journey searches of TrainApi.  The Transport API is [status,        *)
(* departures, live]: how the request for the departures of the origin     *)
(* ends, the departures listed, and for a station code the answer to the   *)
(* request for its departures calling at the destination.  A departure     *)
(* holds train_uid, aimed_departure_time and timetable, <<>> when the      *)
(* timetable cannot be had, else <<stops>>; a stop holds station_code and  *)
(* its aimed times, <<>> for none.  A null duration is 0, which            *)
(* `duration || 999` treats as null.                                       *)
(***************************************************************************)
\* stops.find(s => s.station_code === code): <<>> for undefined
StopAt(stops, code) ==
    LET found == SelectSeq(stops, LAMBDA s : s.station_code = code)
    IN  IF Len(found) = 0 THEN <<>> ELSE <<found[1]>>

\* a || b on two optional times
OrElse(a, b) == IF a # <<>> THEN a ELSE b

\* buildJourneyFromService, trainApi.js:178-203: <<>> for null
buildJourneyFromService(departure, from, to, originStop, destStop, date) ==
    LET depTime == IF originStop # <<>> /\ originStop[1].aimed_departure_time # <<>>
                   THEN originStop[1].aimed_departure_time
                   ELSE <<departure.aimed_departure_time>>
        arrTime == OrElse(destStop[1].aimed_arrival_time, destStop[1].aimed_departure_time)
    IN  IF arrTime = <<>> THEN <<>>
        ELSE <<[id |-> <<"tapi", departure.train_uid>>,
                departureTime |-> [date |-> date, time |-> depTime[1]],
                arrivalTime |-> [date |-> date, time |-> arrTime[1]],
                duration |-> DurationOf(parseTimeToMinutes(arrTime[1])
                                          - parseTimeToMinutes(depTime[1])),
                changes |-> 0,
                legs |-> <<[origin |-> from, destination |-> to,
                            departureTime |-> [date |-> date, time |-> depTime[1]],
                            arrivalTime |-> [date |-> date, time |-> arrTime[1]]]>>]>>

\* connectionHubs and londonInterchanges, trainApi.js:214-223
connectionHubs == {"MAN", "LDS", "YRK", "PRE", "SHF", "BHM", "EUS", "KGX", "PBO", "NCL",
                   "LIV", "CBG"}

londonInterchanges(hubCode) ==
    CASE hubCode = "EUS" -> <<"KGX", "STP">>
      [] hubCode = "KGX" -> <<"EUS", "STP">>
      [] hubCode = "STP" -> <<"KGX", "EUS">>
      [] hubCode = "PAD" -> <<"MYB">>
      [] hubCode = "VIC" -> <<"WAT">>
      [] OTHER -> <<>>

\* the loop over connections.slice(0, 6), trainApi.js:251-309: the journey
\* pushed before the break, <<>> when the loop ends without one
RECURSIVE HubConnection(_, _, _, _, _, _, _, _)
HubConnection(connections, departure, from, to, hubCode, arrivalAtHub, date, n) ==
    IF n > Min2(6, Len(connections)) THEN <<>>
    ELSE LET conn == connections[n]
             hubArrMins == parseTimeToMinutes(arrivalAtHub)
             connDepMins == parseTimeToMinutes(conn.aimed_departure_time)
             destStop == IF conn.timetable = <<>> THEN <<>>
                         ELSE StopAt(conn.timetable[1], to.code)
             arrTime == IF destStop = <<>> THEN <<>>
                        ELSE OrElse(destStop[1].aimed_arrival_time,
                                    destStop[1].aimed_departure_time)
             hub == getStationByCode(hubCode)
             next == HubConnection(connections, departure, from, to, hubCode,
                                   arrivalAtHub, date, n + 1)
         IN  IF ~(connDepMins >= hubArrMins + 5 /\ connDepMins <= hubArrMins + 120)
             THEN next
             ELSE IF conn.timetable = <<>> \/ destStop = <<>> \/ hub = <<>> \/ arrTime = <<>>
             THEN next
             ELSE <<[id |-> <<"tapi", departure.train_uid, conn.train_uid>>,
                     departureTime |-> [date |-> date, time |-> departure.aimed_departure_time],
                     arrivalTime |-> [date |-> date, time |-> arrTime[1]],
                     duration |-> DurationOf(parseTimeToMinutes(arrTime[1])
                                     - parseTimeToMinutes(departure.aimed_departure_time)),
                     changes |-> 1,
                     legs |-> <<[origin |-> from, destination |-> hub[1],
                                 departureTime |-> [date |-> date,
                                                    time |-> departure.aimed_departure_time],
                                 arrivalTime |-> [date |-> date, time |-> arrivalAtHub]],
                                [origin |-> hub[1], destination |-> to,
                                 departureTime |-> [date |-> date,
                                                    time |-> conn.aimed_departure_time],
                                 arrivalTime |-> [date |-> date, time |-> arrTime[1]]]>>]>>

\* the loop over intConnections.slice(0, 2), trainApi.js:326-385
RECURSIVE TerminalConnection(_, _, _, _, _, _, _, _, _)
TerminalConnection(intConnections, departure, from, to, hubCode, interchangeStation,
                   arrivalAtHub, date, n) ==
    IF n > Min2(2, Len(intConnections)) THEN <<>>
    ELSE LET intConn == intConnections[n]
             hubArrMins == parseTimeToMinutes(arrivalAtHub)
             intDepMins == parseTimeToMinutes(intConn.aimed_departure_time)
             destStop == IF intConn.timetable = <<>> THEN <<>>
                         ELSE StopAt(intConn.timetable[1], to.code)
             arrTime == IF destStop = <<>> THEN <<>>
                        ELSE OrElse(destStop[1].aimed_arrival_time,
                                    destStop[1].aimed_departure_time)
             hub1 == getStationByCode(hubCode)
             hub2 == getStationByCode(interchangeStation)
             next == TerminalConnection(intConnections, departure, from, to, hubCode,
                                        interchangeStation, arrivalAtHub, date, n + 1)
         IN  IF ~(intDepMins >= hubArrMins + 30 /\ intDepMins <= hubArrMins + 120)
             THEN next
             ELSE IF \/ intConn.timetable = <<>> \/ destStop = <<>>
                     \/ hub1 = <<>> \/ hub2 = <<>> \/ arrTime = <<>>
             THEN next
             ELSE <<[id |-> <<"tapi", departure.train_uid, "int", intConn.train_uid>>,
                     departureTime |-> [date |-> date, time |-> departure.aimed_departure_time],
                     arrivalTime |-> [date |-> date, time |-> arrTime[1]],
                     duration |-> DurationOf(parseTimeToMinutes(arrTime[1])
                                     - parseTimeToMinutes(departure.aimed_departure_time)),
                     changes |-> 2,
                     legs |-> <<[origin |-> from, destination |-> hub1[1],
                                 departureTime |-> <<[date |-> date,
                                                      time |-> departure.aimed_departure_time]>>,
                                 arrivalTime |-> <<[date |-> date, time |-> arrivalAtHub]>>],
                                [origin |-> hub1[1], destination |-> hub2[1],
                                 departureTime |-> <<>>, arrivalTime |-> <<>>],
                                [origin |-> hub2[1], destination |-> to,
                                 departureTime |-> <<[date |-> date,
                                                      time |-> intConn.aimed_departure_time]>>,
                                 arrivalTime |-> <<[date |-> date, time |-> arrTime[1]]>>]>>]>>

\* the loop over londonInterchanges[hubCode], trainApi.js:313-391
RECURSIVE TerminalLoop(_, _, _, _, _, _, _, _)
TerminalLoop(live, departure, from, to, hubCode, arrivalAtHub, date, m) ==
    IF m > Len(londonInterchanges(hubCode)) THEN <<>>
    ELSE LET interchangeStation == londonInterchanges(hubCode)[m]
             intData == live[interchangeStation]
         IN  (IF ~intData.ok THEN <<>>
              ELSE TerminalConnection(intData.all, departure, from, to, hubCode,
                                      interchangeStation, arrivalAtHub, date, 1))
               \o TerminalLoop(live, departure, from, to, hubCode, arrivalAtHub, date, m + 1)

\* the loop over the stops of findConnectionsOnService, trainApi.js:226-397
RECURSIVE StopsLoop(_, _, _, _, _, _, _, _)
StopsLoop(live, departure, stops, from, to, date, n, found) ==
    IF n > Len(stops) THEN found
    ELSE LET stop == stops[n]
             hubCode == stop.station_code
             arrivalAtHub == OrElse(stop.aimed_arrival_time, stop.aimed_departure_time)
             connData == live[hubCode]
             direct == IF ~connData.ok THEN <<>>
                       ELSE HubConnection(connData.all, departure, from, to, hubCode,
                                          arrivalAtHub[1], date, 1)
             viaTerminal ==
                 IF Len(londonInterchanges(hubCode)) > 0 /\ Len(found \o direct) = 0
                 THEN TerminalLoop(live, departure, from, to, hubCode, arrivalAtHub[1],
                                   date, 1)
                 ELSE <<>>
         IN  StopsLoop(live, departure, stops, from, to, date, n + 1,
                 IF hubCode \notin connectionHubs \/ hubCode = from.code \/ arrivalAtHub = <<>>
                 THEN found
                 ELSE IF ~connData.ok THEN found
                 ELSE found \o direct \o viaTerminal)

\* findConnectionsOnService, trainApi.js:208-400
findConnectionsOnService(live, departure, stops, from, to, date) ==
    StopsLoop(live, departure, stops, from, to, date, 1, <<>>)

\* the callback mapped over departures.slice(0, 10), trainApi.js:104-131:
\* what it adds to journeys
ServiceJourneys(live, dep, from, to, date) ==
    IF dep.timetable = <<>> THEN <<>>
    ELSE LET stops == dep.timetable[1]
             destStop == StopAt(stops, to.code)
         IN  IF destStop # <<>>
             THEN buildJourneyFromService(dep, from, to, StopAt(stops, from.code),
                                          destStop, date)
             ELSE findConnectionsOnService(live, dep, stops, from, to, date)

\* Math.abs
Abs(x) == IF x < 0 THEN 0 - x ELSE x

\* list.sort((a, b) => new Date(a.departureTime) - new Date(b.departureTime)),
\* a stable sort; every journey of one search leaves on the date searched
DepartureKey(journey) == parseTimeToMinutes(journey.departureTime.time)

RECURSIVE InsertByDeparture(_, _)
InsertByDeparture(sorted, journey) ==
    IF Len(sorted) = 0 THEN <<journey>>
    ELSE IF DepartureKey(sorted[Len(sorted)]) <= DepartureKey(journey)
    THEN Append(sorted, journey)
    ELSE Append(InsertByDeparture(Front(sorted), journey), sorted[Len(sorted)])

RECURSIVE SortByDeparture(_)
SortByDeparture(list) ==
    IF Len(list) = 0 THEN <<>>
    ELSE InsertByDeparture(SortByDeparture(Front(list)), list[Len(list)])

\* str.includes(time) for str = `${date}T${HH}:${MM}:00`: the time itself,
\* or its minutes followed by ":00"
IncludesTime(stamp, time) ==
    \/ stamp.time = time
    \/ stamp.time[2] = time[1] /\ time[2] = 0

\* the Huxley answer for a pair of station codes
Departures(departures, fromCode, toCode) == departures[<<fromCode, toCode>>]

\* a Huxley answer without services: !data.trainServices || length === 0
NoServices(resp) == Len(resp.trainServices) = 0

\* a journey whose second leg starts at the origin again
TwoLegJourney_Unlinked(kind, from, via, to, leg1Service, leg1ArrTime, leg2Service, leg2ArrTime, date) ==
    [id |-> <<kind, leg1Service.serviceIdUrlSafe, leg2Service.serviceIdUrlSafe>>,
     departureTime |-> [date |-> date, time |-> leg1Service.std],
     arrivalTime |-> leg2ArrTime,
     duration |-> DurationOf(parseTimeToMinutes(leg2ArrTime.time)
                               - parseTimeToMinutes(leg1Service.std)),
     changes |-> 1,
     legs |-> <<[origin |-> from, destination |-> via,
                 departureTime |-> [date |-> date, time |-> leg1Service.std],
                 arrivalTime |-> [date |-> date, time |-> leg1ArrTime]],
                [origin |-> from, destination |-> to,
                 departureTime |-> [date |-> date, time |-> leg2Service.std],
                 arrivalTime |-> leg2ArrTime]>>]

\* the journey pushed at trainApi.js:462-487 and 967-992
TwoLegJourney(kind, from, via, to, leg1Service, leg1ArrTime, leg2Service, leg2ArrTime, date) ==
    [id |-> <<kind, leg1Service.serviceIdUrlSafe, leg2Service.serviceIdUrlSafe>>,
     departureTime |-> [date |-> date, time |-> leg1Service.std],
     arrivalTime |-> leg2ArrTime,
     duration |-> DurationOf(parseTimeToMinutes(leg2ArrTime.time)
                               - parseTimeToMinutes(leg1Service.std)),
     changes |-> 1,
     legs |-> <<[origin |-> from, destination |-> via,
                 departureTime |-> [date |-> date, time |-> leg1Service.std],
                 arrivalTime |-> [date |-> date, time |-> leg1ArrTime]],
                [origin |-> via, destination |-> to,
                 departureTime |-> [date |-> date, time |-> leg2Service.std],
                 arrivalTime |-> leg2ArrTime]>>]

\* the loop over data2.trainServices of searchViaJourneys, trainApi.js:449-491
RECURSIVE ViaLeg2Loop(_, _, _, _, _, _, _, _, _)
ViaLeg2Loop(services2, from, via, to, leg1Service, leg1ArrTime, date, j, found) ==
    IF j > Len(services2) THEN found
    ELSE LET leg2Service == services2[j]
             leg2ArrTime == findArrivalTime(leg2Service, to.code, date)
             next == ViaLeg2Loop(services2, from, via, to, leg1Service, leg1ArrTime,
                                 date, j + 1, found)
         IN  IF ~(parseTimeToMinutes(leg2Service.std)
                    >= parseTimeToMinutes(leg1ArrTime) + 10)
             THEN next
             ELSE IF leg2ArrTime = <<>> THEN next
             ELSE Append(found, TwoLegJourney("via", from, via, to, leg1Service,
                                              leg1ArrTime, leg2Service, leg2ArrTime[1], date))

\* the loop over data1.trainServices.slice(0, 4), trainApi.js:429-492
RECURSIVE ViaLeg1Loop(_, _, _, _, _, _, _, _)
ViaLeg1Loop(departures, services1, from, via, to, date, i, found) ==
    IF i > Min2(4, Len(services1)) THEN found
    ELSE LET leg1Service == services1[i]
             leg1ArrTime == findArrivalTimeAtHub(leg1Service, via.code)
             resp2 == Departures(departures, via.code, to.code)
         IN  ViaLeg1Loop(departures, services1, from, via, to, date, i + 1,
                 IF leg1ArrTime = <<>> \/ ~resp2.ok \/ NoServices(resp2) THEN found
                 ELSE ViaLeg2Loop(resp2.trainServices, from, via, to, leg1Service,
                                  leg1ArrTime[1], date, 1, found))

\* searchViaJourneys, trainApi.js:410-499
searchViaJourneys(departures, from, via, to, date, time) ==
    LET resp1 == Departures(departures, from.code, via.code)
    IN  IF ~resp1.ok THEN <<>>
        ELSE IF NoServices(resp1) THEN <<>>
        ELSE SortByDeparture(ViaLeg1Loop(departures, resp1.trainServices, from, via, to,
                                         date, 1, <<>>))

\* the loop over data2.trainServices of searchSingleHopConnection,
\* trainApi.js:954-997
RECURSIVE SingleLeg2Loop(_, _, _, _, _, _, _, _, _)
SingleLeg2Loop(services2, from, hub, to, leg1Service, leg1ArrTime, date, j, found) ==
    IF j > Len(services2) THEN found
    ELSE LET leg2Service == services2[j]
             leg2DepMins == parseTimeToMinutes(leg2Service.std)
             leg1ArrMins == parseTimeToMinutes(leg1ArrTime)
             leg2ArrTime == findArrivalTime(leg2Service, to.code, date)
             pushed == Append(found, TwoLegJourney("conn", from, hub, to, leg1Service,
                                                   leg1ArrTime, leg2Service,
                                                   leg2ArrTime[1], date))
         IN  IF ~(leg2DepMins >= leg1ArrMins + 5 /\ leg2DepMins <= leg1ArrMins + 120)
             THEN SingleLeg2Loop(services2, from, hub, to, leg1Service, leg1ArrTime,
                                 date, j + 1, found)
             ELSE IF leg2ArrTime = <<>>
             THEN SingleLeg2Loop(services2, from, hub, to, leg1Service, leg1ArrTime,
                                 date, j + 1, found)
             ELSE IF Len(SelectSeq(pushed, LAMBDA jn :
                            IncludesTime(jn.legs[1].departureTime, leg1Service.std))) >= 2
             THEN pushed
             ELSE SingleLeg2Loop(services2, from, hub, to, leg1Service, leg1ArrTime,
                                 date, j + 1, pushed)

\* the loop over data1.trainServices.slice(0, 3), trainApi.js:936-998
RECURSIVE SingleLeg1Loop(_, _, _, _, _, _, _, _)
SingleLeg1Loop(departures, services1, from, hub, to, date, i, found) ==
    IF i > Min2(3, Len(services1)) THEN found
    ELSE LET leg1Service == services1[i]
             leg1ArrTime == findArrivalTimeAtHub(leg1Service, hub.code)
             resp2 == Departures(departures, hub.code, to.code)
         IN  SingleLeg1Loop(departures, services1, from, hub, to, date, i + 1,
                 IF leg1ArrTime = <<>> \/ ~resp2.ok \/ NoServices(resp2) THEN found
                 ELSE SingleLeg2Loop(resp2.trainServices, from, hub, to, leg1Service,
                                     leg1ArrTime[1], date, 1, found))

\* searchSingleHopConnection, trainApi.js:920-1004
searchSingleHopConnection(departures, from, to, hubCode, date, time) ==
    LET resp1 == Departures(departures, from.code, hubCode)
        hub == getStationByCode(hubCode)
    IN  IF ~resp1.ok \/ NoServices(resp1) \/ hub = <<>> THEN <<>>
        ELSE SingleLeg1Loop(departures, resp1.trainServices, from, hub[1], to, date, 1, <<>>)

\* the loop over data3.trainServices, trainApi.js:1063-1111: the journey
\* returned, <<>> when the loop ends without one
RECURSIVE TwoHopLeg3Loop(_, _, _, _, _, _, _, _, _, _, _)
TwoHopLeg3Loop(services3, from, hub1, hub2, to, leg1Service, leg1ArrTime, leg2Service,
               leg2ArrTime, date, k) ==
    IF k > Len(services3) THEN <<>>
    ELSE LET leg3Service == services3[k]
             leg3ArrTime == findArrivalTime(leg3Service, to.code, date)
             next == TwoHopLeg3Loop(services3, from, hub1, hub2, to, leg1Service,
                                    leg1ArrTime, leg2Service, leg2ArrTime, date, k + 1)
         IN  IF ~(parseTimeToMinutes(leg3Service.std)
                    >= parseTimeToMinutes(leg2ArrTime) + 5)
             THEN next
             ELSE IF leg3ArrTime = <<>> THEN next
             ELSE <<[id |-> <<"conn2", leg1Service.serviceIdUrlSafe,
                              leg2Service.serviceIdUrlSafe, leg3Service.serviceIdUrlSafe>>,
                     departureTime |-> [date |-> date, time |-> leg1Service.std],
                     arrivalTime |-> leg3ArrTime[1],
                     duration |-> DurationOf(parseTimeToMinutes(leg3ArrTime[1].time)
                                               - parseTimeToMinutes(leg1Service.std)),
                     changes |-> 2,
                     legs |-> <<[origin |-> from, destination |-> hub1,
                                 departureTime |-> [date |-> date, time |-> leg1Service.std],
                                 arrivalTime |-> [date |-> date, time |-> leg1ArrTime]],
                                [origin |-> hub1, destination |-> hub2,
                                 departureTime |-> [date |-> date, time |-> leg2Service.std],
                                 arrivalTime |-> [date |-> date, time |-> leg2ArrTime]],
                                [origin |-> hub2, destination |-> to,
                                 departureTime |-> [date |-> date, time |-> leg3Service.std],
                                 arrivalTime |-> leg3ArrTime[1]]>>]>>

\* the loop over data2.trainServices, trainApi.js:1043-1114: it goes on
\* past a service only by a continue, and ends at the break or the return
RECURSIVE TwoHopLeg2Loop(_, _, _, _, _, _, _, _, _, _)
TwoHopLeg2Loop(departures, services2, from, hub1, hub2, to, leg1Service, leg1ArrTime,
               date, j) ==
    IF j > Len(services2) THEN <<>>
    ELSE LET leg2Service == services2[j]
             leg2ArrTime == findArrivalTimeAtHub(leg2Service, hub2.code)
             resp3 == Departures(departures, hub2.code, to.code)
             next == TwoHopLeg2Loop(departures, services2, from, hub1, hub2, to,
                                    leg1Service, leg1ArrTime, date, j + 1)
         IN  IF ~(parseTimeToMinutes(leg2Service.std)
                    >= parseTimeToMinutes(leg1ArrTime) + 5)
             THEN next
             ELSE IF leg2ArrTime = <<>> \/ ~resp3.ok \/ NoServices(resp3) THEN next
             ELSE TwoHopLeg3Loop(resp3.trainServices, from, hub1, hub2, to, leg1Service,
                                 leg1ArrTime, leg2Service, leg2ArrTime[1], date, 1)

\* searchTwoHopConnection, trainApi.js:1009-1121
searchTwoHopConnection(departures, from, to, hub1Code, hub2Code, date, time) ==
    LET hub1 == getStationByCode(hub1Code)
        hub2 == getStationByCode(hub2Code)
        resp1 == Departures(departures, from.code, hub1Code)
        leg1Service == resp1.trainServices[1]
        leg1ArrTime == findArrivalTimeAtHub(leg1Service, hub1Code)
        resp2 == Departures(departures, hub1Code, hub2Code)
    IN  IF hub1 = <<>> \/ hub2 = <<>> THEN <<>>
        ELSE IF ~resp1.ok \/ NoServices(resp1) THEN <<>>
        ELSE IF leg1ArrTime = <<>> \/ ~resp2.ok \/ NoServices(resp2) THEN <<>>
        ELSE TwoHopLeg2Loop(departures, resp2.trainServices, from, hub1[1], hub2[1], to,
                            leg1Service, leg1ArrTime[1], date, 1)

\* the key of a journey in rankAndDeduplicateJourneys, trainApi.js:902
hubsKey(journey) == [n \in 1..Len(journey.legs) |-> journey.legs[n].destination.code]

\* journeys.sort((a, b) => (a.duration || 999) - (b.duration || 999)),
\* a stable sort
DurationKey(journey) == IF journey.duration = 0 THEN 999 ELSE journey.duration

RECURSIVE InsertByDuration(_, _)
InsertByDuration(sorted, journey) ==
    IF Len(sorted) = 0 THEN <<journey>>
    ELSE IF DurationKey(sorted[Len(sorted)]) <= DurationKey(journey)
    THEN Append(sorted, journey)
    ELSE Append(InsertByDuration(Front(sorted), journey), sorted[Len(sorted)])

RECURSIVE SortByDuration(_)
SortByDuration(list) ==
    IF Len(list) = 0 THEN <<>>
    ELSE InsertByDuration(SortByDuration(Front(list)), list[Len(list)])

\* the loop of rankAndDeduplicateJourneys, trainApi.js:900-911
RECURSIVE UniqueJourneys(_, _, _)
UniqueJourneys(sorted, n, unique) ==
    IF n > Len(sorted) THEN unique
    ELSE LET journey == sorted[n]
             isDuplicate == \E u \in 1..Len(unique) :
                               /\ hubsKey(journey) = hubsKey(unique[u])
                               /\ Abs(unique[u].duration - journey.duration) < 15
         IN  UniqueJourneys(sorted, n + 1,
                            IF isDuplicate THEN unique ELSE Append(unique, journey))

\* rankAndDeduplicateJourneys, trainApi.js:893-915
rankAndDeduplicateJourneys(found) ==
    IF Len(found) = 0 THEN <<>>
    ELSE LET unique == UniqueJourneys(SortByDuration(found), 1, <<>>)
         IN  SubSeq(unique, 1, Min2(5, Len(unique)))

\* the callback mapped over data.trainServices, trainApi.js:1232-1303
HuxleyJourney(service, from, to, date) ==
    LET arrivalTime == findArrivalTime(service, to.code, date)
        depMins == parseTimeToMinutes(service.std)
        arrMins == parseTimeToMinutes(arrivalTime[1].time)
        duration == IF arrivalTime = <<>> THEN 0
                    ELSE (IF arrMins < depMins THEN arrMins + 24 * 60 ELSE arrMins) - depMins
    IN  [id |-> service.serviceIdUrlSafe,
         departureTime |-> [date |-> date, time |-> service.std],
         arrivalTime |-> arrivalTime,
         duration |-> duration,
         changes |-> 0,
         legs |-> <<[origin |-> from, destination |-> to,
                     departureTime |-> [date |-> date, time |-> service.std],
                     arrivalTime |-> arrivalTime]>>]

\* normalizeHuxleyResponse, trainApi.js:1225-1306
normalizeHuxleyResponse(data, from, to, date) ==
    IF NoServices(data) THEN <<>>
    ELSE [n \in 1..Len(data.trainServices) |->
             HuxleyJourney(data.trainServices[n], from, to, date)]

(***************************************************************************)
(* findOptimalHubs.  calculateDistance is the haversine distance in km; it *)
(* is computed here in units of 100 m on the plane through the mean        *)
(* latitude, the cosine in thousandths from its series.  A score is in     *)
(* hundredths of a point.  Two hubs whose scores differ by less than half  *)
(* a point, which is within the error of this arithmetic, are taken in     *)
(* either order.                                                           *)
(***************************************************************************)
CosMille(latSum) ==
    LET x == (latSum * 349) \div 80000
        q == (x * x) \div 1000
    IN  1000 - q \div 2 + (q * q) \div 24000 - (q * q * q) \div 720000000

\* calculateDistance, stations.js:295-304
calculateDistance(lat1, lng1, lat2, lng2) ==
    LET dLat == lat2 - lat1
        dLng == ((lng2 - lng1) * CosMille(lat1 + lat2)) \div 1000
    IN  (ISqrt(dLat * dLat + dLng * dLng) * 556) \div 1000

\* trainApi.js:561-572
allHubs ==
    <<"MAN", "LDS", "BHM", "YRK", "PRE", "EDB", "NCL", "SHF", "CRE",
      "BRI", "NOT", "DBY", "DON", "PBO", "DAR", "NTR", "LEI", "COV", "GLC", "CAR",
      "EUS", "KGX", "STP", "PAD", "VIC", "LST", "WAT", "CHX", "MYB", "FST",
      "LIV", "OXF", "RDG", "CBG", "NRW", "PLY", "EXD", "SOU", "BHI", "GTW",
      "HUL", "MLT", "SCA", "SKI", "WKF", "HUD", "BFD", "DNC", "RTM", "PTH",
      "ABD", "INV", "DUN", "STG", "MBR", "CHE", "WVH", "STO", "STK", "MAC">>

\* trainApi.js:575-576
majorHubs == {"YRK", "BHM", "LDS", "MAN", "PRE", "SHF", "CRE", "EDB", "NCL", "LIV", "BRI",
              "RDG", "CBG", "GLC", "EUS", "KGX", "STP", "PAD", "VIC", "LST"}

\* the distances of one pass of the loop, trainApi.js:587-589
HubDistances(from, to, hub) ==
    [totalDist |-> calculateDistance(from.lat, from.lng, to.lat, to.lng),
     distFromOrigin |-> calculateDistance(from.lat, from.lng, hub.lat, hub.lng),
     distFromDest |-> calculateDistance(hub.lat, hub.lng, to.lat, to.lng)]

\* the score of one hub, trainApi.js:592-618
HubScore(from, to, hub) ==
    LET d == HubDistances(from, to, hub)
        position == (d.distFromOrigin * 1000) \div (d.distFromOrigin + d.distFromDest)
        detourRatio == ((d.distFromOrigin + d.distFromDest - d.totalDist) * 1000)
                          \div d.totalDist
    IN  10000
          + (IF position >= 150 /\ position <= 850
             THEN 5000 - Abs(position - 500) * 8 ELSE 0 - 3000)
          - (IF detourRatio > 1000 THEN detourRatio * 2 ELSE 0)
          + (IF hub.code \in majorHubs THEN 4000 ELSE 0)

\* the hubs the loop pushes, trainApi.js:580-626
ScoredHubs(from, to) ==
    SelectSeq(allHubs, LAMBDA hubCode :
        /\ hubCode # from.code
        /\ hubCode # to.code
        /\ getStationByCode(hubCode) # <<>>
        /\ LET d == HubDistances(from, to, getStationByCode(hubCode)[1])
           IN  ~(d.distFromOrigin < 200 \/ d.distFromDest < 200))

\* scoredHubs.sort((a, b) => b.score - a.score), a stable sort
RECURSIVE InsertByScore(_, _, _, _)
InsertByScore(sorted, hubCode, from, to) ==
    IF Len(sorted) = 0 THEN <<hubCode>>
    ELSE IF HubScore(from, to, getStationByCode(sorted[Len(sorted)])[1])
              >= HubScore(from, to, getStationByCode(hubCode)[1])
    THEN Append(sorted, hubCode)
    ELSE Append(InsertByScore(Front(sorted), hubCode, from, to), sorted[Len(sorted)])

RECURSIVE SortByScore(_, _, _)
SortByScore(list, from, to) ==
    IF Len(list) = 0 THEN <<>>
    ELSE InsertByScore(SortByScore(Front(list), from, to), list[Len(list)], from, to)

\* the sorted list with two neighbours exchanged
Exchange(list, n) ==
    [m \in 1..Len(list) |-> IF m = n THEN list[n + 1] ELSE IF m = n + 1 THEN list[n]
                            ELSE list[m]]

\* the lists the geometric part of findOptimalHubs can return,
\* trainApi.js:558-633
GeometricHubs(from, to) ==
    LET sorted == SortByScore(ScoredHubs(from, to), from, to)
    IN  {sorted} \cup
        {Exchange(sorted, n) : n \in {m \in 1..(Len(sorted) - 1) :
            HubScore(from, to, getStationByCode(sorted[m])[1])
              - HubScore(from, to, getStationByCode(sorted[m + 1])[1]) < 50}}

\* the hub pairs of the two-hop search, trainApi.js:858-874, row by row
RECURSIVE hubPairs(_, _, _)
hubPairs(relevantHubs, from, n) ==
    LET count == Min2(6, Len(relevantHubs))
        i == ((n - 1) \div count) + 1
        j == ((n - 1) % count) + 1
        hub1 == getStationByCode(relevantHubs[i])
        hub2 == getStationByCode(relevantHubs[j])
    IN  IF count = 0 \/ n > count * count THEN <<>>
        ELSE (IF /\ i # j
                 /\ hub1 # <<>>
                 /\ hub2 # <<>>
                 /\ calculateDistance(from.lat, from.lng, hub1[1].lat, hub1[1].lng)
                      < calculateDistance(from.lat, from.lng, hub2[1].lat, hub2[1].lng)
              THEN <<<<relevantHubs[i], relevantHubs[j]>>>> ELSE <<>>)
             \o hubPairs(relevantHubs, from, n + 1)

\* singleHopResults.forEach(result => journeys.push(...result)),
\* trainApi.js:843-849
RECURSIVE SingleHops(_, _, _, _, _, _, _)
SingleHops(departures, from, to, relevantHubs, date, time, n) ==
    IF n > Min2(6, Len(relevantHubs)) THEN <<>>
    ELSE searchSingleHopConnection(departures, from, to, relevantHubs[n], date, time)
           \o SingleHops(departures, from, to, relevantHubs, date, time, n + 1)

\* twoHopResults.forEach(result => journeys.push(...result)),
\* trainApi.js:877-883
RECURSIVE TwoHops(_, _, _, _, _, _, _)
TwoHops(departures, from, to, pairs, date, time, n) ==
    IF n > Min2(8, Len(pairs)) THEN <<>>
    ELSE searchTwoHopConnection(departures, from, to, pairs[n][1], pairs[n][2], date, time)
           \o TwoHops(departures, from, to, pairs, date, time, n + 1)

\* searchConnectionJourneys from trainApi.js:826 on, optimalHubs being an
\* array
HubSetSearch(departures, from, to, optimalHubs, date, time) ==
    LET relevantHubs == SubSeq(optimalHubs, 1, Min2(8, Len(optimalHubs)))
        singleHop == SingleHops(departures, from, to, relevantHubs, date, time, 1)
    IN  IF Len(relevantHubs) = 0 THEN <<>>
        ELSE IF Len(singleHop) < 3
        THEN rankAndDeduplicateJourneys(
                 singleHop \o TwoHops(departures, from, to,
                                      hubPairs(relevantHubs, from, 1), date, time, 1))
        ELSE rankAndDeduplicateJourneys(singleHop)

\* searchConnectionJourneys, trainApi.js:810-888, optimalData being what
\* findOptimalHubs returned: [type |-> "sequence", hubs] or [type |->
\* "array", hubs] for an array.  The result is [rejected, value].
\* optimalData is declared const, so the assignment at trainApi.js:823
\* throws a TypeError.
searchConnectionJourneys(departures, from, to, optimalData, date, time) ==
    IF optimalData.type = "sequence"
    THEN LET sequenceJourneys == searchMultiLegSequence(departures, from, to,
                                                        optimalData.hubs, date, time)
         IN  IF Len(sequenceJourneys) > 0
             THEN [rejected |-> FALSE, value |-> rankAndDeduplicateJourneys(sequenceJourneys)]
             ELSE [rejected |-> TRUE, value |-> <<>>]
    ELSE [rejected |-> FALSE,
          value |-> HubSetSearch(departures, from, to, optimalData.hubs, date, time)]

(***************************************************************************)
(* searchJourneys from Scarborough to Liverpool, one call after another    *)
(* within cacheDuration.  What an upstream service answers is chosen when  *)
(* the first request of a search reaches it.                               *)
(***************************************************************************)
\* config.cacheDuration (trainApi.js:25), in minutes
cacheDuration == 5

Stop(code, arrival, departure) ==
    [station_code |-> code, aimed_arrival_time |-> arrival, aimed_departure_time |-> departure]

\* the departures of the Transport API, by train_uid: t1 calls at the
\* destination, t2 at York, t3 at Euston, t6 at York and Euston, t4 has no
\* timetable, t5 calls at the destination without a time there; c0 and c1
\* leave York 2 and 7
\* minutes after t2 arrives, c2 has no timetable; e1 leaves Euston and k0,
\* k1 leave Kings Cross 20 and 35 minutes after t3 arrives
TapiDeparture(uid) ==
    CASE uid = "t1" -> [train_uid |-> uid, aimed_departure_time |-> <<9, 40>>,
                        timetable |-> <<<<Stop("SCA", <<>>, <<<<9, 41>>>>),
                                          Stop("YRK", <<<<10, 30>>>>, <<<<10, 32>>>>),
                                          Stop("LIV", <<<<12, 0>>>>, <<>>)>>>>]
      [] uid = "t2" -> [train_uid |-> uid, aimed_departure_time |-> <<10, 0>>,
                        timetable |-> <<<<Stop("SCA", <<>>, <<<<10, 0>>>>),
                                          Stop("MLT", <<<<10, 15>>>>, <<<<10, 16>>>>),
                                          Stop("YRK", <<<<10, 30>>>>, <<>>)>>>>]
      [] uid = "t3" -> [train_uid |-> uid, aimed_departure_time |-> <<10, 5>>,
                        timetable |-> <<<<Stop("SCA", <<>>, <<<<10, 5>>>>),
                                          Stop("EUS", <<<<12, 30>>>>, <<>>)>>>>]
      [] uid = "t6" -> [train_uid |-> uid, aimed_departure_time |-> <<10, 5>>,
                        timetable |-> <<<<Stop("SCA", <<>>, <<<<10, 5>>>>),
                                          Stop("YRK", <<<<10, 30>>>>, <<<<10, 31>>>>),
                                          Stop("EUS", <<<<12, 30>>>>, <<>>)>>>>]
      [] uid = "t4" -> [train_uid |-> uid, aimed_departure_time |-> <<10, 10>>,
                        timetable |-> <<>>]
      [] uid = "t5" -> [train_uid |-> uid, aimed_departure_time |-> <<10, 20>>,
                        timetable |-> <<<<Stop("LIV", <<>>, <<>>)>>>>]
      [] uid = "c0" -> [train_uid |-> uid, aimed_departure_time |-> <<10, 32>>,
                        timetable |-> <<<<Stop("LIV", <<<<12, 5>>>>, <<>>)>>>>]
      [] uid = "c1" -> [train_uid |-> uid, aimed_departure_time |-> <<10, 37>>,
                        timetable |-> <<<<Stop("LIV", <<<<12, 10>>>>, <<>>)>>>>]
      [] uid = "c2" -> [train_uid |-> uid, aimed_departure_time |-> <<10, 40>>,
                        timetable |-> <<>>]
      [] uid = "e1" -> [train_uid |-> uid, aimed_departure_time |-> <<12, 40>>,
                        timetable |-> <<<<Stop("LIV", <<<<15, 0>>>>, <<>>)>>>>]
      [] uid = "k0" -> [train_uid |-> uid, aimed_departure_time |-> <<12, 50>>,
                        timetable |-> <<<<Stop("LIV", <<<<15, 20>>>>, <<>>)>>>>]
      [] OTHER -> [train_uid |-> uid, aimed_departure_time |-> <<13, 5>>,
                   timetable |-> <<<<Stop("LIV", <<>>, <<<<15, 30>>>>)>>>>]

\* the answer to a request for departures: the trains listed, or <<"failed">>
LiveBoard(answer) ==
    IF answer = <<"failed">> THEN [ok |-> FALSE, all |-> <<>>]
    ELSE [ok |-> TRUE, all |-> [n \in 1..Len(answer) |-> TapiDeparture(answer[n])]]

\* the stations whose departures findConnectionsOnService can ask for
LiveCodes == connectionHubs \cup {"STP"}

\* an answer of the Transport API: how the request for the departures of
\* the origin ends, the departures, and the departures of York, Euston and
\* Kings Cross calling at the destination
TransportApi(status, deps, atYork, atEuston, atKingsCross) ==
    [status |-> status,
     departures |-> LiveBoard(deps).all,
     live |-> [c \in LiveCodes |->
                  CASE c = "YRK" -> LiveBoard(atYork)
                    [] c = "EUS" -> LiveBoard(atEuston)
                    [] c = "KGX" -> LiveBoard(atKingsCross)
                    [] OTHER -> LiveBoard(<<>>)]]

\* what the Transport API can answer
TransportApis ==
    {TransportApi(status, <<>>, <<>>, <<>>, <<>>) :
        status \in {"rejected", "notOk", "errorBody", "badJson"}}
    \cup {TransportApi("ok", deps, <<>>, <<>>, <<>>) :
             deps \in {<<>>, <<"t4">>, <<"t5">>, <<"t1">>}}
    \cup {TransportApi("ok", <<"t2">>, atYork, <<>>, <<>>) :
             atYork \in {<<"failed">>, <<"c2">>, <<"c0", "c1">>}}
    \cup {TransportApi("ok", <<"t3">>, <<>>, atEuston, atKingsCross) :
             atEuston \in {<<>>, <<"e1">>}, atKingsCross \in {<<"failed">>, <<"k0", "k1">>}}
    \cup {TransportApi("ok", deps, <<"c0", "c1">>, <<>>, <<"k0", "k1">>) :
             deps \in {<<"t6">>, <<"t3", "t2", "t1">>}}

ApiCodes == {UK_STATIONS[n].code : n \in 1..Len(UK_STATIONS)}

\* what Huxley can answer, pair by pair; a pair not named has no services
Boards ==
    {[p \in ApiCodes \X ApiCodes |->
         CASE p = <<"SCA", "LIV">> -> ResponseTo(direct, p[2])
           [] p = <<"SCA", "YRK">> -> ResponseTo(toYork, p[2])
           [] p = <<"YRK", "LIV">> -> ResponseTo(fromYork, p[2])
           [] p = <<"YRK", "LDS">> -> ResponseTo(yorkLeeds, p[2])
           [] p = <<"LDS", "LIV">> -> ResponseTo(fromLeeds, p[2])
           [] OTHER -> ResponseTo(<<>>, p[2])] :
        direct \in {<<"failed">>, <<>>, <<"a">>},
        toYork \in {<<"failed">>, <<>>, <<"a">>},
        fromYork \in {<<>>, <<"e", "d", "b", "c">>},
        yorkLeeds \in {<<>>, <<"b">>},
        fromLeeds \in {<<>>, <<"c">>}}
    \cup
    {[p \in ApiCodes \X ApiCodes |->
         IF p = <<"SCA", "LIV">> THEN ResponseTo(<<"a", "c">>, p[2])
         ELSE ResponseTo(<<>>, p[2])]}

\* the lines stationGraph.json can hold: none, or a route over York, or a
\* route over York and Leeds
ApiRailFiles ==
    {<<>>,
     <<[origin |-> "SCA", dest |-> "YRK", distance |-> 1],
       [origin |-> "YRK", dest |-> "LIV", distance |-> 3],
       [origin |-> "LIV", dest |-> "YRK", distance |-> 3]>>,
     <<[origin |-> "SCA", dest |-> "YRK", distance |-> 1],
       [origin |-> "YRK", dest |-> "LDS", distance |-> 1],
       [origin |-> "LDS", dest |-> "LIV", distance |-> 2],
       [origin |-> "LIV", dest |-> "LDS", distance |-> 2]>>}

\* the locals of a call of searchJourneys before its first request
NewCall == [reason |-> "", directJourneys |-> <<>>, optimalData |-> <<>>,
            connection |-> <<>>]

InitApi ==
    /\ pc = "idle"
    /\ ways = <<>>
    /\ origin = UK_STATIONS[1]
    /\ destination = UK_STATIONS[5]
    /\ NoGraph
    /\ coordPath = <<>>
    /\ validatedPath = <<>>
    /\ geometry = <<>>
    /\ stages = <<>>
    /\ NoTurn
    /\ NoRoute
    /\ NoGreedy
    /\ NoJourney
    /\ NoStore
    /\ NoCalls
    /\ NoRail
    /\ board = <<>>
    /\ hubs = <<>>
    /\ journeys = <<>>
    /\ tapi = <<>>
    /\ apiCall = NewCall
    /\ warning = ""
    /\ searchCache = <<>>
    /\ NoMap
    /\ NoForm

\* searchJourneys with a via station, trainApi.js:36-38
ApiSearchVia ==
    /\ pc \in {"idle", "returned"}
    /\ \E b \in Boards : board' = b
    /\ journeys' = searchViaJourneys(board', origin, UK_STATIONS[2], destination,
                                     SearchDate, SearchTime)
    /\ warning' = ""
    /\ apiCall' = [NewCall EXCEPT !.reason = "via"]
    /\ tapi' = <<>>
    /\ pc' = "returned"
    /\ UNCHANGED <<inputVars, graphVars, coordPath, validatedPath, geometry, stages,
                   turnVars, routeVars, greedyVars, journeyVars, storeVars, callVars,
                   mapVars, formVars, railVars, hubs, searchCache>>

\* searchJourneys without a via station up to its first request,
\* trainApi.js:40-53: the cached data is returned, or the departures of the
\* origin are asked for
ApiSearch ==
    /\ pc \in {"idle", "returned"}
    /\ IF searchCache # <<>> /\ now - searchCache[1].timestamp < cacheDuration
       THEN /\ journeys' = searchCache[1].data
            /\ warning' = searchCache[1].warning
            /\ apiCall' = [NewCall EXCEPT !.reason = "cached"]
            /\ pc' = "returned"
       ELSE /\ journeys' = <<>>
            /\ warning' = ""
            /\ apiCall' = NewCall
            /\ pc' = "transportApi"
    /\ tapi' = <<>>
    /\ board' = <<>>
    /\ UNCHANGED <<inputVars, graphVars, coordPath, validatedPath, geometry, stages,
                   turnVars, routeVars, greedyVars, journeyVars, storeVars, callVars,
                   mapVars, formVars, railVars, hubs, searchCache>>

\* journeys after results.forEach and the sort, trainApi.js:105-146
RECURSIVE TransportApiJourneys(_, _, _, _, _)
TransportApiJourneys(api, from, to, date, n) ==
    IF n > Min2(10, Len(api.departures)) THEN <<>>
    ELSE ServiceJourneys(api.live, api.departures[n], from, to, date)
           \o TransportApiJourneys(api, from, to, date, n + 1)

\* why fetchTransportApiJourneys turns to Huxley, "" when it does not:
\* trainApi.js:81-91 and 161, 95 and 149
FallbackReason(api, found) ==
    IF api.status # "ok" THEN "error"
    ELSE IF Len(api.departures) = 0 THEN "noDepartures"
    ELSE IF Len(found) = 0 THEN "noJourneys"
    ELSE ""

\* what fetchTransportApiJourneys finds itself, trainApi.js:105-159, []
\* when it turns to Huxley
TransportApiFound(api, from, to, date) ==
    LET sorted == SortByDeparture(TransportApiJourneys(api, from, to, date, 1))
    IN  IF api.status # "ok" THEN <<>> ELSE SubSeq(sorted, 1, Min2(8, Len(sorted)))

\* the array fetchTransportApiJourneys or fetchHuxleyJourneys hands back
\* goes through searchJourneys (trainApi.js:59-61) to the caller; a
\* fallback result that is empty gets a warning (trainApi.js:98-100,
\* 152-154, 168-170)
Returned(found, reason) ==
    /\ journeys' = found
    /\ warning' = IF reason # "" /\ Len(found) = 0 THEN reason ELSE ""
    /\ searchCache' = <<[data |-> journeys', warning |-> warning', timestamp |-> now]>>
    /\ pc' = "returned"

\* fetchTransportApiJourneys until it returns or asks Huxley,
\* trainApi.js:68-165
TransportApiAnswered ==
    /\ pc = "transportApi"
    /\ \E api \in TransportApis : tapi' = api
    /\ apiCall' = [apiCall EXCEPT !.reason =
                      FallbackReason(tapi', TransportApiFound(tapi', origin, destination,
                                                             SearchDate))]
    /\ IF apiCall'.reason = ""
       THEN Returned(TransportApiFound(tapi', origin, destination, SearchDate), "")
       ELSE /\ pc' = "huxley"
            /\ UNCHANGED <<journeys, warning, searchCache>>
    /\ UNCHANGED <<inputVars, graphVars, coordPath, validatedPath, geometry, stages,
                   turnVars, routeVars, greedyVars, journeyVars, storeVars, callVars,
                   mapVars, formVars, railVars, board, hubs>>

\* fetchHuxleyJourneys to the end of its direct query, trainApi.js:1153-1205.
\* A fetch that rejects ends like a response that is not OK.
HuxleyDirect ==
    /\ pc = "huxley"
    /\ \E b \in Boards : board' = b
    /\ apiCall' = [apiCall EXCEPT !.directJourneys =
                      IF Departures(board', origin.code, destination.code).ok
                      THEN normalizeHuxleyResponse(
                               Departures(board', origin.code, destination.code),
                               origin, destination, SearchDate)
                      ELSE <<>>]
    /\ IF Len(apiCall'.directJourneys) < 2
       THEN /\ pc' = "hubs"
            /\ UNCHANGED <<journeys, warning, searchCache>>
       ELSE Returned(apiCall'.directJourneys, apiCall.reason)
    /\ UNCHANGED <<inputVars, graphVars, coordPath, validatedPath, geometry, stages,
                   turnVars, routeVars, greedyVars, journeyVars, storeVars, callVars,
                   mapVars, formVars, railVars, hubs, tapi>>

\* findOptimalHubs, trainApi.js:546-634, with RailGraph.init
\* (railGraph.js:17-29) when the stations are not loaded: the file is
\* loaded, or the request fails
OptimalHubsFound ==
    /\ pc = "hubs"
    /\ IF stationsLoaded \/ stationGraph # <<>>
       THEN UNCHANGED <<stationGraph, stationsLoaded>>
       ELSE \/ UNCHANGED <<stationGraph, stationsLoaded>>
            \/ /\ \E file \in ApiRailFiles : stationGraph' = <<BuildStationGraph(file)>>
               /\ stationsLoaded' = TRUE
    /\ interchanges' = findInterchanges(stationGraph', origin.code, destination.code)
    /\ IF Len(interchanges') > 0
       THEN apiCall' = [apiCall EXCEPT !.optimalData =
                          [type |-> "sequence", hubs |-> interchanges']]
       ELSE \E list \in GeometricHubs(origin, destination) :
               apiCall' = [apiCall EXCEPT !.optimalData = [type |-> "array", hubs |-> list]]
    /\ pc' = "connections"
    /\ UNCHANGED <<inputVars, graphVars, coordPath, validatedPath, geometry, stages,
                   turnVars, routeVars, greedyVars, journeyVars, storeVars, callVars,
                   mapVars, formVars, inits, fetchCount, assignCount, startCode, endCode, railSearch,
                   railPath, board, hubs, journeys, tapi, warning, searchCache>>

\* fetchHuxleyJourneys from the connection search on, trainApi.js:1207-1219,
\* connection being what searchConnectionJourneys came to: a rejection is
\* caught and logged
HuxleyResult_Rethrow(directJourneys, connection) ==
    [rejected |-> connection.rejected,
     value |-> SortByDeparture(directJourneys \o connection.value)]

HuxleyResult(directJourneys, connection) ==
    [rejected |-> FALSE,
     value |-> IF connection.rejected THEN directJourneys
               ELSE SortByDeparture(directJourneys \o connection.value)]

\* the connection search and the rest of the call, trainApi.js:1205-1219,
\* 97-101, 151-155, 165-171 and 59-61
ConnectionsSearched ==
    /\ pc = "connections"
    /\ apiCall' = [apiCall EXCEPT !.connection =
                      <<searchConnectionJourneys(board, origin, destination,
                                                 apiCall.optimalData, SearchDate,
                                                 SearchTime)>>]
    /\ IF HuxleyResult(apiCall.directJourneys, apiCall'.connection[1]).rejected
       THEN /\ pc' = "rejected"
            /\ UNCHANGED <<journeys, warning, searchCache>>
       ELSE Returned(HuxleyResult(apiCall.directJourneys, apiCall'.connection[1]).value,
                     apiCall.reason)
    /\ UNCHANGED <<inputVars, graphVars, coordPath, validatedPath, geometry, stages,
                   turnVars, routeVars, greedyVars, journeyVars, storeVars, callVars,
                   mapVars, formVars, railVars, board, hubs, tapi>>

NextApi ==
    \/ ApiSearchVia
    \/ ApiSearch
    \/ TransportApiAnswered
    \/ HuxleyDirect
    \/ OptimalHubsFound
    \/ ConnectionsSearched

SpecApi == InitApi /\ [][NextApi]_vars

(***************************************************************************)
(* Properties of the journey searches (SpecApi)                            *)
(***************************************************************************)
\* the reasons for which fetchTransportApiJourneys turns to Huxley
FallbackReasons == {"error", "noDepartures", "noJourneys"}

\* C32: when findOptimalHubs returned a hub sequence and
\* searchMultiLegSequence found no journey for it, searchConnectionJourneys
\* does not fail: it returns what the single-hop and two-hop searches via
\* those hubs find, ranked
C32_DegradesToHubSet ==
    (/\ pc = "returned"
     /\ apiCall.connection # <<>>
     /\ apiCall.optimalData.type = "sequence"
     /\ Len(searchMultiLegSequence(board, origin, destination, apiCall.optimalData.hubs,
                                   SearchDate, SearchTime)) = 0)
    => /\ ~apiCall.connection[1].rejected
       /\ apiCall.connection[1].value
            = HubSetSearch(board, origin, destination, apiCall.optimalData.hubs,
                           SearchDate, SearchTime)

\* what fetchHuxleyJourneys returns, from the locals of the call
HuxleyFallback ==
    IF apiCall.connection = <<>> THEN apiCall.directJourneys
    ELSE HuxleyResult(apiCall.directJourneys, apiCall.connection[1]).value

\* C34: a search never rejects; after an error of the Transport API it
\* returns what fetchHuxleyJourneys returned; and an empty array returned
\* by a search without a via station carries a warning
C34_AlwaysAnArray ==
    /\ pc # "rejected"
    /\ (pc = "returned" /\ apiCall.reason = "error") => journeys = HuxleyFallback
    /\ (pc = "returned" /\ apiCall.reason # "via" /\ Len(journeys) = 0) => warning # ""

\* C34 witness: the Transport API, the direct query of Huxley and the
\* connection search have all failed, and the search has returned an empty
\* array with a warning
C34_Witness ==
    /\ pc = "returned"
    /\ apiCall.reason = "error"
    /\ ~Departures(board, origin.code, destination.code).ok
    /\ apiCall.connection # <<>>
    /\ apiCall.connection[1].rejected
    /\ journeys = <<>>
    /\ warning = "error"

\* a journey that is a chain from one station to another
ConnectedChain(journey, from, to) ==
    /\ Len(journey.legs) >= 1
    /\ journey.legs[1].origin.code = from.code
    /\ journey.legs[Len(journey.legs)].destination.code = to.code
    /\ \A n \in 1..(Len(journey.legs) - 1) :
          journey.legs[n].destination.code = journey.legs[n + 1].origin.code
    /\ journey.changes = Len(journey.legs) - 1

\* C36: every journey a search returns starts at the requested origin, ends
\* at the requested destination, has each leg start where the leg before it
\* ended, and counts one change less than it has legs
C36_ConnectedChains ==
    pc = "returned" =>
        \A n \in 1..Len(journeys) : ConnectedChain(journeys[n], origin, destination)

\* C36 witness: a search has returned a direct service, a connection at a
\* hub and a journey with a walk between two London terminals
C36_Witness ==
    /\ pc = "returned"
    /\ apiCall.reason = ""
    /\ {Len(journeys[n].legs) : n \in 1..Len(journeys)} = {1, 2, 3}
    /\ \E n \in 1..Len(journeys) :
          /\ Len(journeys[n].legs) = 3
          /\ journeys[n].legs[2].origin.code = "EUS"
          /\ journeys[n].legs[2].destination.code = "KGX"

\* the kinds of journey the searches of SpecApi return
JourneyKinds ==
    {journeys[n].id[1] : n \in {m \in 1..Len(journeys) : Len(journeys[m].id) > 1}}

(***************************************************************************)
(* The map: updateMap (app.js:303-335), RouteRenderer.renderJourneys       *)
(* (routeRenderer.js:12-30) and MapController (mapController.js).  A       *)
(* search ends and its list is shown, or a card of the list on display is  *)
(* clicked, while earlier calls of renderJourneys wait for the geometry of *)
(* a journey.  A layer of the map is [call, journey, primary], a marker    *)
(* [call, journey, type, code]: the call that created it, the id of the    *)
(* journey and what was drawn.                                             *)
(***************************************************************************)
MaxRenders == 3

geometryVars == <<inputVars, graphVars, coordPath, validatedPath, geometry, stages,
                  turnVars, routeVars, greedyVars, journeyVars, storeVars, callVars,
                  railVars>>
apiVars == <<board, hubs, journeys, tapi, apiCall, warning, searchCache>>

\* a journey with its legs from station to station
Trip(id, codes) ==
    [id |-> id,
     legs |-> [n \in 1..(Len(codes) - 1) |->
                  [origin |-> [code |-> codes[n]], destination |-> [code |-> codes[n + 1]]]]]

\* the lists a search can hand to the page; the journey "none" has no legs
RenderLists ==
    {<<Trip("direct", <<"SCA", "LIV">>), Trip("change", <<"SCA", "YRK", "LIV">>)>>,
     <<Trip("none", <<"SCA">>), Trip("later", <<"SCA", "LDS", "LIV">>)>>,
     <<Trip("none", <<"SCA">>)>>,
     <<>>}

InitRender ==
    /\ pc = "page"
    /\ ways = <<>>
    /\ origin = UK_STATIONS[1]
    /\ destination = UK_STATIONS[5]
    /\ NoGraph
    /\ coordPath = <<>>
    /\ validatedPath = <<>>
    /\ geometry = <<>>
    /\ stages = <<>>
    /\ NoTurn
    /\ NoRoute
    /\ NoGreedy
    /\ NoJourney
    /\ NoStore
    /\ NoCalls
    /\ NoRail
    /\ board = <<>>
    /\ hubs = <<>>
    /\ journeys = <<>>
    /\ NoApi
    /\ NoMap
    /\ NoForm

\* journeys.filter(j => j.legs && j.legs.length > 0), app.js:307
validJourneys(list) == SelectSeq(list, LAMBDA j : Len(j.legs) > 0)

\* the loop at app.js:326-332, positions counted from 0; validJourneys[n]
\* is undefined past the end of the list
RECURSIVE ActualSelectedIndex(_, _, _, _)
ActualSelectedIndex(list, selectedIndex, i, actualSelectedIndex) ==
    IF ~(i < Len(list) /\ i <= selectedIndex) THEN actualSelectedIndex
    ELSE IF /\ actualSelectedIndex < Len(validJourneys(list))
            /\ list[i + 1] = validJourneys(list)[actualSelectedIndex + 1]
         THEN IF i = selectedIndex THEN actualSelectedIndex
              ELSE ActualSelectedIndex(list, selectedIndex, i + 1, actualSelectedIndex + 1)
         ELSE ActualSelectedIndex(list, selectedIndex, i + 1, actualSelectedIndex)

\* the order in which renderJourneys displays the journeys,
\* routeRenderer.js:18-27: the others first, the selected one last;
\* positions counted from 0
DrawOrder(list, selectedIndex) ==
    SelectSeq([n \in 1..Len(list) |-> n - 1], LAMBDA index : index # selectedIndex)
      \o (IF selectedIndex < Len(list) THEN <<selectedIndex>> ELSE <<>>)

\* the stations displayJourney collects, mapController.js:323-335
RECURSIVE StationsOf(_, _)
StationsOf(journey, n) ==
    IF n > Len(journey.legs) THEN <<>>
    ELSE (IF n = 1 THEN <<[code |-> journey.legs[n].origin.code, type |-> "origin"]>>
          ELSE <<>>)
         \o <<[code |-> journey.legs[n].destination.code,
               type |-> IF n < Len(journey.legs) THEN "interchange" ELSE "destination"]>>
         \o StationsOf(journey, n + 1)

\* updateMap, app.js:303-335, as call number c: an empty list changes
\* nothing; without a journey that has legs the map is cleared and gets the
\* two stations and a line; else renderJourneys clears the map
\* (routeRenderer.js:13-15) and goes on to its first displayJourney, which
\* waits for the geometry of the journey (mapController.js:341)
updateMap(list, selectedIndex) ==
    LET c == Len(renders) + 1
        valid == validJourneys(list)
        selected == Min2(ActualSelectedIndex(list, selectedIndex, 0, 0), Len(valid) - 1)
    IN  IF Len(list) = 0
        THEN UNCHANGED <<renders, routeLayers, stationMarkers, trainMarkers, mapView>>
        ELSE IF Len(valid) = 0
        THEN /\ renders' = Append(renders, [kind |-> "plain", list |-> <<>>,
                                            selectedIndex |-> 0, order |-> <<>>,
                                            overlapped |-> FALSE, done |-> TRUE])
             /\ routeLayers' = <<[call |-> c, journey |-> "line", primary |-> TRUE]>>
             /\ stationMarkers' = <<[call |-> c, journey |-> "line", type |-> "origin",
                                     code |-> origin.code],
                                    [call |-> c, journey |-> "line", type |-> "destination",
                                     code |-> destination.code]>>
             /\ trainMarkers' = <<>>
             /\ mapView' = <<Len(routeLayers') + Len(stationMarkers') + Len(trainMarkers')>>
        ELSE /\ renders' = Append(renders,
                               [kind |-> "render", list |-> valid,
                                selectedIndex |-> selected,
                                order |-> DrawOrder(valid, selected),
                                overlapped |-> \E e \in 1..Len(renders) : ~renders[e].done,
                                done |-> FALSE])
             /\ routeLayers' = <<>>
             /\ stationMarkers' = <<>>
             /\ trainMarkers' = <<>>
             /\ UNCHANGED mapView

\* the end of handleSearch, app.js:233-240: the list found is shown with
\* its first journey selected, and the map is updated
SearchShown ==
    /\ Len(renders) < MaxRenders
    /\ \E list \in RenderLists :
          /\ shown' = list
          /\ updateMap(list, 0)
    /\ UNCHANGED <<pc, geometryVars, apiVars, formVars>>

\* a card of the list on display is clicked, app.js:291-295
CardClicked ==
    /\ Len(renders) < MaxRenders
    /\ \E index \in 0..(Len(shown) - 1) : updateMap(shown, index)
    /\ UNCHANGED <<pc, shown, geometryVars, apiVars, formVars>>

\* the geometry a call of renderJourneys waits for arrives, or the request
\* for it fails: displayJourney draws the route and, for the selected
\* journey, the markers of its stations and, when the journey is under way,
\* of the train (mapController.js:348-376); renderJourneys goes on to the
\* next displayJourney or, after the last, to fitBounds
\* (routeRenderer.js:18-29)
GeometryArrived(c) ==
    /\ ~renders[c].done
    /\ LET index == Head(renders[c].order)
           journey == renders[c].list[index + 1]
           isPrimary == index = renders[c].selectedIndex
           stations == StationsOf(journey, 1)
       IN  /\ routeLayers' = Append(routeLayers,
                                    [call |-> c, journey |-> journey.id, primary |-> isPrimary])
           /\ IF isPrimary
              THEN /\ stationMarkers' = stationMarkers \o
                         [n \in 1..Len(stations) |->
                             [call |-> c, journey |-> journey.id,
                              type |-> stations[n].type, code |-> stations[n].code]]
                   /\ \/ UNCHANGED trainMarkers
                      \/ trainMarkers' = Append(trainMarkers,
                                                [call |-> c, journey |-> journey.id])
              ELSE UNCHANGED <<stationMarkers, trainMarkers>>
    /\ renders' = [renders EXCEPT ![c].order = Tail(@),
                                   ![c].done = Len(renders[c].order) = 1]
    /\ IF Len(renders[c].order) = 1
       THEN mapView' = <<Len(routeLayers') + Len(stationMarkers') + Len(trainMarkers')>>
       ELSE UNCHANGED mapView
    /\ UNCHANGED <<pc, shown, geometryVars, apiVars, formVars>>

NextRender ==
    \/ SearchShown
    \/ CardClicked
    \/ \E c \in 1..Len(renders) : GeometryArrived(c)

SpecRender == InitRender /\ [][NextRender]_vars

\* every call of renderJourneys has finished, and the most recent update of
\* the map was one of them
RendersFinished ==
    /\ Len(renders) > 0
    /\ \A c \in 1..Len(renders) : renders[c].done
    /\ renders[Len(renders)].kind = "render"

\* the map shows the call: one route per journey of its list, the selected
\* one as the primary route, and markers for the selected journey only
ShowsOnly(c) ==
    LET call == renders[c]
        selected == call.list[call.selectedIndex + 1]
    IN  /\ Len(routeLayers) = Len(call.list)
        /\ \A n \in 1..Len(call.list) :
              \E e \in 1..Len(routeLayers) :
                 routeLayers[e] = [call |-> c, journey |-> call.list[n].id,
                                   primary |-> n - 1 = call.selectedIndex]
        /\ Len(stationMarkers) = Len(StationsOf(selected, 1))
        /\ \A e \in 1..Len(stationMarkers) :
              stationMarkers[e].call = c /\ stationMarkers[e].journey = selected.id
        /\ Len(trainMarkers) <= 1
        /\ \A e \in 1..Len(trainMarkers) :
              trainMarkers[e] = [call |-> c, journey |-> selected.id]

\* a call of renderJourneys that began while no other was waiting leaves,
\* when it is the most recent and all have finished, its own layers only
RenderAlone ==
    (RendersFinished /\ \A c \in 1..Len(renders) : ~renders[c].overlapped)
        => ShowsOnly(Len(renders))

\* two calls of renderJourneys overlapped and both have finished
RenderOverlapped ==
    RendersFinished /\ \E c \in 1..Len(renders) : renders[c].overlapped

\* C38: when calls of renderJourneys overlap, then once all of them have
\* finished the route layers of the map are exactly those of the most recent
\* call, one route per journey of its list and markers only for its selected
\* journey, with no route or marker left over from an earlier call
C38_LastRenderOnly == RendersFinished => ShowsOnly(Len(renders))

(***************************************************************************)
(* The search form: the two StationSearch inputs (part_001:196-420), the   *)
(* stations the page keeps for them (app.js:76-94), swapStations           *)
(* (app.js:171-182) and handleSearch up to its call of                     *)
(* TrainApi.searchJourneys (app.js:187-231).  A text is the sequence of    *)
(* its characters; a station of the form is [name, code]; null is the      *)
(* station without a name.                                                 *)
(***************************************************************************)
FormInputs == {"origin", "destination"}

York == [name |-> <<"Y", "o", "r", "k">>, code |-> <<"Y", "R", "K">>]
Leeds == [name |-> <<"L", "e", "e", "d", "s">>, code |-> <<"L", "D", "S">>]
Leicester == [name |-> <<"L", "e", "i", "c", "e", "s", "t", "e", "r">>,
              code |-> <<"L", "E", "I">>]

\* the stations of UK_STATIONS the form searches, in the order of the data
\* (stations.js:29, 30, 84)
FormStations == <<York, Leeds, Leicester>>

NoStation == [name |-> <<>>, code |-> <<>>]

\* the texts typed into an input
TypedTexts(input) ==
    IF input = "origin"
    THEN {<<"l", "e">>, <<"e">>}
    ELSE {<<"l", "e", "d", "s">>, <<" ", "Y", "R", "K">>}

\* String.prototype.toLowerCase over the capitals of the names and codes
LowerChar(ch) ==
    CASE ch = "Y" -> "y" [] ch = "R" -> "r" [] ch = "K" -> "k" [] ch = "L" -> "l"
      [] ch = "D" -> "d" [] ch = "S" -> "s" [] ch = "E" -> "e" [] ch = "I" -> "i"
      [] OTHER -> ch
toLowerCase(str) == [n \in 1..Len(str) |-> LowerChar(str[n])]

\* String.prototype.trim
RECURSIVE trimStart(_)
trimStart(str) ==
    IF Len(str) > 0 /\ Head(str) = " " THEN trimStart(Tail(str)) ELSE str
RECURSIVE trimEnd(_)
trimEnd(str) ==
    IF Len(str) > 0 /\ str[Len(str)] = " " THEN trimEnd(SubSeq(str, 1, Len(str) - 1))
    ELSE str
trim(str) == trimEnd(trimStart(str))

\* String.prototype.startsWith and indexOf (from 0, -1 when absent)
startsWith(str, part) ==
    Len(part) <= Len(str) /\ SubSeq(str, 1, Len(part)) = part
RECURSIVE IndexFrom(_, _, _)
IndexFrom(str, part, n) ==
    IF n + Len(part) > Len(str) THEN -1
    ELSE IF SubSeq(str, n + 1, n + Len(part)) = part THEN n
    ELSE IndexFrom(str, part, n + 1)
indexOf(str, part) == IndexFrom(str, part, 0)

\* fuzzyMatch, stations.js:241-262: the bigrams of the two strings and twice
\* the share of common ones, as the fraction <<numerator, denominator>>
getBigrams(str) == {SubSeq(str, n, n + 1) : n \in 1..(Len(str) - 1)}
fuzzyMatch(str1, str2) ==
    LET matches == Cardinality(getBigrams(str1) \cap getBigrams(str2))
        total == Cardinality(getBigrams(str1)) + Cardinality(getBigrams(str2))
    IN  IF total = 0 THEN <<0, 1>> ELSE <<2 * matches, total>>

\* the score searchStations gives a station, stations.js:198-229, as a
\* fraction; <<-1, 1>> for a station that is not a result
StationScore(station, normalizedQuery) ==
    LET name == toLowerCase(station.name)
        code == toLowerCase(station.code)
        fuzzyScore == fuzzyMatch(normalizedQuery, name)
    IN  IF code = normalizedQuery THEN <<1000, 1>>
        ELSE IF startsWith(name, normalizedQuery) THEN <<100 + (100 - Len(name)), 1>>
        ELSE IF startsWith(code, normalizedQuery) THEN <<90, 1>>
        ELSE IF indexOf(name, normalizedQuery) >= 0
             THEN <<50 - indexOf(name, normalizedQuery), 1>>
        ELSE IF 10 * fuzzyScore[1] >= 6 * fuzzyScore[2]
             THEN <<30 * fuzzyScore[1], fuzzyScore[2]>>
        ELSE <<-1, 1>>

\* results.sort((a, b) => b.score - a.score), stations.js:232: a stable
\* sort, the higher score first
Higher(a, b) == a[1] * b[2] > b[1] * a[2]
RECURSIVE InsertResult(_, _)
InsertResult(sorted, entry) ==
    IF sorted = <<>> THEN <<entry>>
    ELSE IF Higher(entry.score, Head(sorted).score) THEN <<entry>> \o sorted
    ELSE <<Head(sorted)>> \o InsertResult(Tail(sorted), entry)
RECURSIVE SortResults(_, _)
SortResults(list, n) ==
    IF n = 0 THEN <<>> ELSE InsertResult(SortResults(list, n - 1), list[n])

\* searchStations, stations.js:191-236; the three stations are fewer than
\* its limit of 8
searchStations(query) ==
    IF Len(query) < 2 THEN <<>>
    ELSE LET normalizedQuery == trim(toLowerCase(query))
             scored == [n \in 1..Len(FormStations) |->
                          [station |-> FormStations[n],
                           score |-> StationScore(FormStations[n], normalizedQuery)]]
             results == SelectSeq(scored, LAMBDA entry : entry.score[1] >= 0)
             sorted == SortResults(results, Len(results))
         IN  [n \in 1..Len(sorted) |-> sorted[n].station]

\* getStationByName, stations.js:274-277: the first station with that name,
\* or undefined
getStationByName(name) ==
    LET normalized == trim(toLowerCase(name))
        found == SelectSeq(FormStations, LAMBDA s : toLowerCase(s.name) = normalized)
    IN  IF found = <<>> THEN NoStation ELSE Head(found)

\* StationData.getByName(value) || StationData.search(value)[0],
\* app.js:193-194
ResolveFromText(value) ==
    IF getStationByName(value) # NoStation THEN getStationByName(value)
    ELSE IF searchStations(value) # <<>> THEN Head(searchStations(value))
    ELSE NoStation

\* the state StationSearch.init gives an input, part_001:211-219; the timer
\* holds the query it was set with, <<>> when none is pending
NewSearchState ==
    [selectedStation |-> NoStation, highlightIndex |-> -1, results |-> <<>>,
     debounceTimer |-> <<>>, active |-> FALSE]

\* the state field of the page an input's onSelect writes, app.js:78-87
StationField(input) == IF input = "origin" THEN "originStation" ELSE "destinationStation"

InitForm ==
    /\ pc = "form"
    /\ ways = <<>>
    /\ origin = UK_STATIONS[1]
    /\ destination = UK_STATIONS[5]
    /\ NoGraph
    /\ coordPath = <<>>
    /\ validatedPath = <<>>
    /\ geometry = <<>>
    /\ stages = <<>>
    /\ NoTurn
    /\ NoRoute
    /\ NoGreedy
    /\ NoJourney
    /\ NoStore
    /\ NoCalls
    /\ NoRail
    /\ board = <<>>
    /\ hubs = <<>>
    /\ journeys = <<>>
    /\ NoApi
    /\ NoMap
    /\ inputValue = [input \in FormInputs |-> <<>>]
    /\ searchState = [input \in FormInputs |-> NewSearchState]
    /\ stationState = [originStation |-> NoStation, destinationStation |-> NoStation]
    /\ lastSelected = [input \in FormInputs |-> NoStation]
    /\ request = <<>>

\* handleInput, part_001:240-255: the text of the input was edited; the
\* selection of the component is reset and the search is put off by 150 ms
handleInput(input) ==
    /\ \E text \in TypedTexts(input) :
          /\ text # inputValue[input]
          /\ inputValue' = [inputValue EXCEPT ![input] = text]
          /\ searchState' = [searchState EXCEPT ![input].selectedStation = NoStation,
                                                ![input].debounceTimer = <<text>>]
    /\ lastSelected' = [lastSelected EXCEPT ![input] = NoStation]
    /\ request' = <<>>
    /\ UNCHANGED <<pc, stationState, geometryVars, apiVars, mapVars>>

\* the timer fires: performSearch with the query the timer was set with,
\* part_001:260-276
performSearch(input) ==
    /\ searchState[input].debounceTimer # <<>>
    /\ LET query == searchState[input].debounceTimer[1]
           results == searchStations(query)
       IN  searchState' =
              IF Len(query) < 2
              THEN [searchState EXCEPT ![input].debounceTimer = <<>>,
                                       ![input].active = FALSE]
              ELSE [searchState EXCEPT ![input].debounceTimer = <<>>,
                                       ![input].results = results,
                                       ![input].highlightIndex = -1,
                                       ![input].active = Len(results) > 0]
    /\ request' = <<>>
    /\ UNCHANGED <<pc, inputValue, stationState, lastSelected, geometryVars, apiVars,
                   mapVars>>

\* selectStation, part_001:359-367, with the onSelect of the input,
\* app.js:78-87: the component and the page take the station and the input
\* its name
selectStation(input, station) ==
    /\ searchState' = [searchState EXCEPT ![input].selectedStation = station,
                                          ![input].active = FALSE]
    /\ inputValue' = [inputValue EXCEPT ![input] = station.name]
    /\ stationState' = [stationState EXCEPT ![StationField(input)] = station]
    /\ lastSelected' = [lastSelected EXCEPT ![input] = station]

\* a mousedown on an item of the dropdown, part_001:291-297
ItemClicked(input) ==
    /\ searchState[input].active
    /\ \E index \in 0..(Len(searchState[input].results) - 1) :
          selectStation(input, searchState[input].results[index + 1])
    /\ request' = <<>>
    /\ UNCHANGED <<pc, geometryVars, apiVars, mapVars>>

\* handleKeydown, part_001:303-339, for a key it handles; without results it
\* returns at once
handleKeydown(input, key) ==
    LET state == searchState[input]
        sole == Len(state.results) = 1
        highlighted == state.highlightIndex >= 0
    IN  /\ Len(state.results) > 0
        /\ CASE key = "ArrowDown" ->
                  /\ searchState' = [searchState EXCEPT ![input].highlightIndex =
                                        Min2(@ + 1, Len(state.results) - 1)]
                  /\ UNCHANGED <<inputValue, stationState, lastSelected>>
             [] key = "ArrowUp" ->
                  /\ searchState' = [searchState EXCEPT ![input].highlightIndex =
                                        IF @ - 1 > 0 THEN @ - 1 ELSE 0]
                  /\ UNCHANGED <<inputValue, stationState, lastSelected>>
             [] key = "Enter" ->
                  IF highlighted
                  THEN selectStation(input, state.results[state.highlightIndex + 1])
                  ELSE IF sole THEN selectStation(input, state.results[1])
                  ELSE UNCHANGED <<searchState, inputValue, stationState, lastSelected>>
             [] key = "Escape" ->
                  /\ searchState' = [searchState EXCEPT ![input].active = FALSE]
                  /\ UNCHANGED <<inputValue, stationState, lastSelected>>
             [] key = "Tab" ->
                  IF sole THEN selectStation(input, state.results[1])
                  ELSE /\ searchState' = [searchState EXCEPT ![input].active = FALSE]
                       /\ UNCHANGED <<inputValue, stationState, lastSelected>>
        /\ request' = <<>>
    /\ UNCHANGED <<pc, geometryVars, apiVars, mapVars>>

\* swapStations, app.js:171-182: the stations of the page and the texts of
\* the inputs change places, and with them the station each text was
\* selected as
swapStations ==
    /\ stationState' = [originStation |-> stationState.destinationStation,
                        destinationStation |-> stationState.originStation]
    /\ inputValue' = [origin |-> inputValue["destination"],
                      destination |-> inputValue["origin"]]
    /\ lastSelected' = [origin |-> lastSelected["destination"],
                        destination |-> lastSelected["origin"]]
    /\ request' = <<>>
    /\ UNCHANGED <<pc, searchState, geometryVars, apiVars, mapVars>>

\* handleSearch, app.js:187-231: a station the page lacks is resolved from
\* the text of its input; without one of the two it alerts and returns;
\* else the two stations are passed to TrainApi.searchJourneys.  The request
\* is the call the latest step made; it keeps, next to the two stations, the
\* texts and the selections of the moment
handleSearch ==
    /\ stationState' =
          [originStation |->
              IF stationState.originStation = NoStation
              THEN ResolveFromText(inputValue["origin"])
              ELSE stationState.originStation,
           destinationStation |->
              IF stationState.destinationStation = NoStation
              THEN ResolveFromText(inputValue["destination"])
              ELSE stationState.destinationStation]
    /\ request' =
          IF \/ stationState'.originStation = NoStation
             \/ stationState'.destinationStation = NoStation
          THEN <<>>
          ELSE <<[station |-> [origin |-> stationState'.originStation,
                               destination |-> stationState'.destinationStation],
                  text |-> inputValue,
                  selected |-> lastSelected]>>
    /\ UNCHANGED <<pc, inputValue, searchState, lastSelected, geometryVars, apiVars,
                   mapVars>>

\* the keys pressed in an input
FormKeys(input) ==
    IF input = "origin" THEN {"ArrowDown", "ArrowUp", "Enter", "Escape", "Tab"}
    ELSE {"Enter"}

NextForm ==
    \/ \E input \in FormInputs : handleInput(input)
    \/ \E input \in FormInputs : performSearch(input)
    \/ \E input \in FormInputs : ItemClicked(input)
    \/ \E input \in FormInputs : \E key \in FormKeys(input) : handleKeydown(input, key)
    \/ swapStations
    \/ handleSearch

SpecForm == InitForm /\ [][NextForm]_vars

\* C39: whenever handleSearch issues a search, the station passed for an
\* input is the station most recently selected in that input with no edit of
\* its text since, or else a station resolved from the current text of the
\* input; a station selected before the text was edited is never used
C39_StationOfTheInput ==
    request # <<>> =>
        \A input \in FormInputs :
            \/ /\ request[1].selected[input] # NoStation
               /\ request[1].station[input] = request[1].selected[input]
            \/ request[1].station[input] = ResolveFromText(request[1].text[input])

=============================================================================
